---- MODULE Spec2Model ----
(***************************************************************************)
(* Model of the OAuth2 authorization-code-with-PKCE flow and of the token  *)
(* store of rainy-day (src-tauri/src/auth/mod.rs, auth/token_store.rs,     *)
(* auth/keychain.rs).                                                      *)
(*                                                                         *)
(* Every Tauri command is an async function on a multi-threaded runtime:   *)
(* a call is a process whose steps are its accesses to shared state (the   *)
(* pending slot, the session slot, the keychain, the files, the network),  *)
(* and the steps of different calls interleave freely.  A call that has    *)
(* returned stays in "ret" with its result until the caller takes it       *)
(* (Dismiss), so that a property can speak about the moment of return.     *)
(*                                                                         *)
(* Option<T> is a sequence of length 0 (None) or 1 (Some).                 *)
(***************************************************************************)
EXTENDS Integers, Sequences, FiniteSets, TLC

VARIABLES
    pending,        \* AuthState.pending: Option<PendingAuth>
    listening,      \* ports on which a callback listener of this process is bound
    nonce,          \* number of PKCE verifier / CSRF token pairs generated so far
    exchangeSent,   \* per verifier: authorization-code exchange requests sent with it
    issued,         \* number of access tokens the provider has issued
    logins,         \* number of them it issued for an authorization code
    inFlight,       \* refresh requests sent and not yet answered
    session,        \* TokenStore.session: Option<ActiveSession>
    metadata_path,  \* TokenStore.metadata_path: Option<PathBuf>
    client_id,      \* TokenStore.client_id / client_secret: Option<String>
    vault,          \* OS keychain: entry key -> Option<password>
    metaFile,       \* session_metadata.json: Option<content>
    legacyFile,     \* auth_session.json: Option<content>
    now,            \* chrono::Utc::now().timestamp()
    store,          \* RustCache.store: key -> Option<CacheEntry>
    pc,             \* per call: where it stands
    loc             \* per call: its local variables, ghosts and result

vars == <<pending, listening, nonce, exchangeSent, issued, logins, inFlight, session,
          metadata_path, client_id, vault, metaFile, legacyFile, now, store, pc, loc>>

authVars  == <<pending, listening, nonce, exchangeSent>>
storeVars == <<session, metadata_path, client_id, vault, metaFile, legacyFile>>

----------------------------------------------------------------------------
(* Bounds of the model *)

\* PKCE/CSRF pairs generated in one behaviour (start_google_auth calls that
\* pass the port probe)
MaxStarts == 2

\* authorization-code exchanges the provider answers with tokens in one behaviour
MaxLogins == 1

\* refreshes the provider answers with a token in one behaviour
MaxRefreshes == 1

\* ports of the candidate range that are modelled (the code probes 100)
MaxPorts == 2

\* clock advances in one behaviour
MaxTicks == 1

\* times the application is started again in one behaviour
MaxRestarts == 1

----------------------------------------------------------------------------
(* Program constants *)

PORT_RANGE_START == 8400
REFRESH_BUFFER == 300
DEFAULT_EXPIRES_IN == 3600

----------------------------------------------------------------------------
(* Values *)

None == << >>
Some(x) == << x >>
IsSome(o) == o # << >>
Unwrap(o) == o[1]

Ok(v) == [ok |-> TRUE, val |-> v]
Err(m) == [ok |-> FALSE, err |-> m]

Ports == PORT_RANGE_START .. (PORT_RANGE_START + MaxPorts - 1)

Verifier(n) == "verifier" \o ToString(n)
Csrf(n) == "csrf" \o ToString(n)
AccessToken(n) == "at" \o ToString(n)

Verifiers == { Verifier(n) : n \in 1..MaxStarts }
CsrfTokens == { Csrf(n) : n \in 1..MaxStarts }
\* access tokens the provider issues in one behaviour
MaxIssued == MaxLogins + MaxRefreshes

\* AccessToken(0) is the one a legacy session file holds
AccessTokens == { AccessToken(n) : n \in 0..MaxIssued }
RefreshTokens == { "rt1", "rt2" }
Emails == { "a@b.com", "c@d.com" }
Codes == { "code1" }

\* what the provider's profile endpoint can answer
UserA == [email |-> "a@b.com", name |-> None, picture |-> None]
UserC == [email |-> "c@d.com", name |-> Some("Cy"), picture |-> Some("pic")]

\* the keys of the cache, each the sequence of its characters: "p1" and "e"
CacheKeys == { <<"p", "1">>, <<"e">> }

\* RustCache::new, lines 52-56: no entry under any key
EmptyCache == [k \in CacheKeys |-> None]

\* expires_in of a token response: absent, inside the buffer, just outside, usual
ExpiresIns == { None, Some(REFRESH_BUFFER), Some(REFRESH_BUFFER + 1), Some(DEFAULT_EXPIRES_IN) }

Starters == { "s1" }
Waiters == { "w1", "w2" }
Getters == { "g1", "g2" }
Clearers == { "c1" }
Storers == { "t1" }
StatusCallers == { "a1" }
Initializer == "init"

----------------------------------------------------------------------------
(* Local state of a call before it starts *)

StarterIdle ==
    [port |-> 0, pkce_verifier |-> "", csrf_token |-> "",
     overwrote |-> FALSE,          \* ghost: the slot was occupied when this call stored
     busy |-> {},                  \* ghost: the ports that could not be bound at the probe
     result |-> None]

WaiterIdle ==
    [found |-> FALSE,              \* ghost: the slot was occupied when the call began
     port |-> 0, expected_state |-> "", pkce_verifier |-> "",
     bound |-> FALSE,              \* ghost: this call bound a listener
     request |-> None,             \* ghost: the parameters the request that was read had
     responded |-> FALSE,          \* ghost: the success page was written to the connection
     callback |-> None,            \* Option<(code, received_state)>
     slotAtCallback |-> FALSE,     \* ghost: the slot was occupied when the callback came
     replaced |-> FALSE,           \* ghost: the slot was replaced while the listener waited
     sentExchange |-> FALSE,       \* ghost: this call sent a token-exchange request
     wrote |-> FALSE,              \* ghost: this call wrote the vault, the file or the session
     tokens |-> None,              \* Option<GoogleTokenResponse>
     exchangedAt |-> 0,            \* ghost: the clock when the token answer arrived
     expires_in |-> None,          \* ghost: expires_in of the token answer
     expires_at |-> None,          \* Option<i64> of line 240
     stored |-> None,              \* Option<StoredTokens> handed to store_tokens
     result |-> None]

GetterIdle ==
    [snapshot |-> None,            \* the clone of the session slot, line 356-359
     stale |-> FALSE,              \* ghost: the snapshot had expires_at <= now + 300
     refreshed |-> FALSE,          \* ghost: this call sent a refresh request
     readNow |-> 0,                \* ghost: the clock as this call last read it
     expires_in |-> None,          \* ghost: expires_in of the refresh response
     new_session |-> None,         \* Option<ActiveSession> of line 377
     returned |-> None,            \* ghost: expires_at of the session the returned token is of
     result |-> None]

ClearerIdle ==
    [email |-> None,               \* Option<String> of line 395-398
     fileEmail |-> None,           \* ghost: the email in the metadata file at the call
     result |-> None]

StorerIdle ==
    [stored |-> None,              \* the StoredTokens argument
     expires_at |-> None,
     wrote |-> FALSE,
     result |-> None]

StatusIdle ==
    [result |-> None]

InitializerIdle ==
    [migrated |-> None,            \* ghost: the old StoredTokens this run has migrated
     before |-> None,              \* ghost: the keychain when migration was first tried
     fault |-> "",                 \* ghost: the platform operation that failed in the load
     found |-> None,               \* ghost: the expiry in the metadata file the load began with
     runs |-> 0,                   \* ghost: the number of earlier runs of the application
     result |-> None]

\* what is left of a call's local state once it has returned r: its ghosts,
\* the state it expected and the callback it got
WaiterRet(l, r) ==
    [WaiterIdle EXCEPT !.found = l.found, !.expected_state = l.expected_state,
                       !.bound = l.bound, !.callback = l.callback,
                       !.request = l.request, !.responded = l.responded,
                       !.slotAtCallback = l.slotAtCallback, !.replaced = l.replaced,
                       !.sentExchange = l.sentExchange, !.wrote = l.wrote,
                       !.result = Some(r)]

StarterRet(l, r) ==
    [StarterIdle EXCEPT !.overwrote = l.overwrote,
                        !.busy = IF r.ok THEN {} ELSE l.busy,
                        !.result = Some(r)]

GetterRet(l, r) ==
    [GetterIdle EXCEPT !.stale = l.stale, !.refreshed = l.refreshed,
                       !.readNow = l.readNow, !.expires_in = l.expires_in,
                       !.returned = l.returned, !.result = Some(r)]

\* the local state of call p once it has returned r from local state l
Returned(p, l, r) ==
    CASE p \in Starters -> StarterRet(l, r)
      [] p \in Waiters -> WaiterRet(l, r)
      [] p \in Getters -> GetterRet(l, r)
      [] p \in Clearers -> [ClearerIdle EXCEPT !.email = l.email,
                                               !.fileEmail = l.fileEmail,
                                               !.result = Some(r)]
      [] p \in Storers -> [StorerIdle EXCEPT !.stored = l.stored, !.wrote = l.wrote,
                                             !.result = Some(r)]
      [] p \in StatusCallers -> [StatusIdle EXCEPT !.result = Some(r)]
      [] p = Initializer -> [l EXCEPT !.result = Some(r)]

----------------------------------------------------------------------------
(* start_google_auth *)

\* a probe that walks the range from its end
find_available_port_Highest(busy) ==
    IF \E p \in Ports : p \notin busy
    THEN Ok(CHOOSE p \in Ports : p \notin busy /\ \A q \in Ports : q \notin busy => p >= q)
    ELSE Err("No available port found for OAuth callback")

\* find_available_port: the lowest port of the range that can be bound
find_available_port(busy) ==
    IF \E p \in Ports : p \notin busy
    THEN Ok(CHOOSE p \in Ports : p \notin busy /\ \A q \in Ports : q \notin busy => p <= q)
    ELSE Err("No available port found for OAuth callback")

PendingAuth(verifier, csrf, port) ==
    [pkce_verifier |-> verifier, csrf_token |-> csrf, redirect_port |-> port]

\* the authorization URL, as far as the flow depends on it
AuthUrl(port, csrf, verifier) ==
    [redirect_uri_port |-> port, state |-> csrf, code_challenge_of |-> verifier]

\* a slot write that keeps an authorization that is already pending
StorePending_KeepFirst(old, new) ==
    IF IsSome(old) THEN old ELSE Some(new)

\* *pending = Some(PendingAuth {..}): whatever was in the slot is dropped
StorePending(old, new) ==
    Some(new)

\* lines 96-117: probe a port (ext: the ports other programs hold), then
\* generate the PKCE pair and the anti-forgery token
StartProbe(s) ==
    /\ pc[s] = "idle"
    /\ \E ext \in SUBSET Ports :
         LET r == find_available_port(ext \cup listening) IN
         IF r.ok
         THEN /\ nonce < MaxStarts
              /\ nonce' = nonce + 1
              /\ pc' = [pc EXCEPT ![s] = "store"]
              /\ loc' = [loc EXCEPT ![s].port = r.val,
                                    ![s].busy = ext \cup listening,
                                    ![s].pkce_verifier = Verifier(nonce + 1),
                                    ![s].csrf_token = Csrf(nonce + 1)]
         ELSE /\ pc' = [pc EXCEPT ![s] = "ret"]
              /\ loc' = [loc EXCEPT ![s] =
                           Returned(s, [loc[s] EXCEPT !.busy = ext \cup listening], r)]
              /\ UNCHANGED nonce
    /\ UNCHANGED <<pending, listening, exchangeSent, issued, logins, inFlight, now, store>>
    /\ UNCHANGED storeVars

\* lines 119-128: lock the slot, store, return the URL (ghost: the calls
\* of wait_for_oauth_callback blocked on their listener see a replaced slot)
StartStore(s) ==
    /\ pc[s] = "store"
    /\ pending' = StorePending(pending,
                     PendingAuth(loc[s].pkce_verifier, loc[s].csrf_token, loc[s].port))
    /\ pc' = [pc EXCEPT ![s] = "ret"]
    /\ loc' = [p \in DOMAIN loc |->
                  IF p = s
                  THEN Returned(s, [loc[s] EXCEPT !.overwrote = IsSome(pending)],
                           Ok(AuthUrl(loc[s].port, loc[s].csrf_token, loc[s].pkce_verifier)))
                  ELSE IF p \in Waiters /\ pc[p] = "accept"
                       THEN [loc[p] EXCEPT !.replaced = TRUE]
                       ELSE loc[p]]
    /\ UNCHANGED <<listening, nonce, exchangeSent, issued, logins, inFlight, now, store>>
    /\ UNCHANGED storeVars

----------------------------------------------------------------------------
(* wait_for_oauth_callback *)

NoPendingError == Err("No pending OAuth flow. Call start_google_auth first.")
CsrfError == Err("CSRF token mismatch - possible attack")

\* a read of the slot that falls back to defaults when it is empty
ReadPending_OrDefault(p) ==
    IF IsSome(p)
    THEN Ok([port |-> Unwrap(p).redirect_port,
             expected_state |-> Unwrap(p).csrf_token,
             pkce_verifier |-> Unwrap(p).pkce_verifier])
    ELSE Ok([port |-> PORT_RANGE_START, expected_state |-> "", pkce_verifier |-> ""])

\* lines 148-155: the copies the call takes of the pending authorization
ReadPending(p) ==
    IF IsSome(p)
    THEN Ok([port |-> Unwrap(p).redirect_port,
             expected_state |-> Unwrap(p).csrf_token,
             pkce_verifier |-> Unwrap(p).pkce_verifier])
    ELSE NoPendingError

\* what can arrive on the listener: an accept or read failure, or a request
\* whose query string carries (or lacks) code and state
Connections ==
    { [kind |-> "accept_failed"], [kind |-> "read_failed"] }
    \cup { [kind |-> "request", code |-> c, state |-> st] :
             c \in {None} \cup { Some(x) : x \in Codes },
             st \in {None} \cup { Some(x) : x \in CsrfTokens \cup {"forged"} } }

\* lines 279-283: what a request that was read carries, None when no request
\* was read
RequestRead(conn) ==
    IF conn.kind = "request"
    THEN Some([code |-> IsSome(conn.code), state |-> IsSome(conn.state)])
    ELSE None

\* lines 285-315: the success page is written once both parameters have been
\* extracted; the `?` of lines 285 and 287 return before it
ResponseWritten(conn) ==
    conn.kind = "request" /\ IsSome(conn.code) /\ IsSome(conn.state)

\* a parser that takes a request without state as one with an empty state
wait_for_callback_sync_Lenient(conn) ==
    CASE conn.kind = "accept_failed" -> Err("Callback error: Failed to accept connection")
      [] conn.kind = "read_failed" -> Err("Callback error: Failed to read request")
      [] conn.kind = "request" /\ ~IsSome(conn.code) ->
            Err("Callback error: No authorization code in callback")
      [] OTHER -> Ok([code |-> Unwrap(conn.code),
                      received_state |-> IF IsSome(conn.state) THEN Unwrap(conn.state)
                                         ELSE ""])

\* wait_for_callback_sync after the bind, lines 270-317
wait_for_callback_sync(conn) ==
    CASE conn.kind = "accept_failed" -> Err("Callback error: Failed to accept connection")
      [] conn.kind = "read_failed" -> Err("Callback error: Failed to read request")
      [] conn.kind = "request" /\ ~IsSome(conn.code) ->
            Err("Callback error: No authorization code in callback")
      [] conn.kind = "request" /\ IsSome(conn.code) /\ ~IsSome(conn.state) ->
            Err("Callback error: No state parameter in callback")
      [] OTHER -> Ok([code |-> Unwrap(conn.code), received_state |-> Unwrap(conn.state)])

\* a check that lets every callback through
CsrfMismatch_Never(expected_state, received_state) ==
    FALSE

\* line 175
CsrfMismatch(expected_state, received_state) ==
    expected_state # received_state

\* lines 148-158
WaitBegin(w) ==
    /\ pc[w] = "idle"
    /\ LET r == ReadPending(pending) IN
       IF r.ok
       THEN /\ pc' = [pc EXCEPT ![w] = "bind"]
            /\ loc' = [loc EXCEPT ![w].found = IsSome(pending),
                                  ![w].port = r.val.port,
                                  ![w].expected_state = r.val.expected_state,
                                  ![w].pkce_verifier = r.val.pkce_verifier]
       ELSE /\ pc' = [pc EXCEPT ![w] = "ret"]
            /\ loc' = [loc EXCEPT ![w] =
                          Returned(w, [loc[w] EXCEPT !.found = IsSome(pending)], r)]
    /\ UNCHANGED <<authVars, issued, logins, inFlight, now, store>>
    /\ UNCHANGED storeVars

\* lines 163-166 and 265-266: the blocking task binds the port; the bind fails
\* when another listener holds it
WaitBind(w) ==
    /\ pc[w] = "bind"
    /\ \E extBusy \in BOOLEAN :
         IF extBusy \/ loc[w].port \in listening
         THEN /\ pc' = [pc EXCEPT ![w] = "ret"]
              /\ loc' = [loc EXCEPT ![w] = Returned(w, loc[w],
                           Err("Callback error: Failed to start callback server"))]
              /\ UNCHANGED listening
         ELSE /\ listening' = listening \cup {loc[w].port}
              /\ pc' = [pc EXCEPT ![w] = "accept"]
              /\ loc' = [loc EXCEPT ![w].bound = TRUE]
    /\ UNCHANGED <<pending, nonce, exchangeSent, issued, logins, inFlight, now, store>>
    /\ UNCHANGED storeVars

\* lines 270-317 and 167-170: one connection is accepted and parsed; the
\* listener is dropped when the blocking task returns
WaitAccept(w) ==
    /\ pc[w] = "accept"
    /\ listening' = listening \ {loc[w].port}
    /\ \E conn \in Connections :
         LET r == wait_for_callback_sync(conn) IN
         IF r.ok
         THEN /\ pc' = [pc EXCEPT ![w] = "verify"]
              /\ loc' = [loc EXCEPT ![w].callback = Some(r.val),
                                    ![w].request = RequestRead(conn),
                                    ![w].responded = ResponseWritten(conn),
                                    ![w].slotAtCallback = IsSome(pending)]
         ELSE /\ pc' = [pc EXCEPT ![w] = "ret"]
              /\ loc' = [loc EXCEPT ![w] =
                           Returned(w, [loc[w] EXCEPT
                                          !.request = RequestRead(conn),
                                          !.responded = ResponseWritten(conn)], r)]
    /\ UNCHANGED <<pending, nonce, exchangeSent, issued, logins, inFlight, now, store>>
    /\ UNCHANGED storeVars

\* lines 174-182: compare, then lock the slot and clear it
WaitVerify(w) ==
    /\ pc[w] = "verify"
    /\ IF CsrfMismatch(loc[w].expected_state, Unwrap(loc[w].callback).received_state)
       THEN /\ pc' = [pc EXCEPT ![w] = "ret"]
            /\ loc' = [loc EXCEPT ![w] = Returned(w, loc[w], CsrfError)]
            /\ UNCHANGED pending
       ELSE /\ pending' = None
            /\ pc' = [pc EXCEPT ![w] = "exchange"]
            /\ UNCHANGED loc
    /\ UNCHANGED <<listening, nonce, exchangeSent, issued, logins, inFlight, now, store>>
    /\ UNCHANGED storeVars

----------------------------------------------------------------------------
(* The provider *)

\* answers of the token endpoint to an authorization-code exchange when n
\* access tokens have been issued: no answer (or timeout), a non-2xx status,
\* a body that does not parse, or a token response whose refresh_token is
\* one of rts and whose expires_in is one of exps
TokenResponses(n, rts, exps) ==
    { [kind |-> "send_failed"], [kind |-> "non_2xx"], [kind |-> "malformed"] }
    \cup { [kind |-> "ok", access_token |-> AccessToken(n + 1),
            refresh_token |-> rt, expires_in |-> e] : rt \in rts, e \in exps }

\* answers of the profile endpoint, for the accounts users
ProfileResponses(users) ==
    { [kind |-> "send_failed"], [kind |-> "non_2xx"], [kind |-> "malformed"] }
    \cup { [kind |-> "ok", user_info |-> u] : u \in users }

----------------------------------------------------------------------------
(* keychain.rs and the metadata file *)

\* format!("{}:{}", email, REFRESH_TOKEN_KEY)
KeychainKey(email) == email \o ":refresh_token"

\* the entries of service com.enosislabs.rainyday a behaviour can touch
KeychainKeys == { KeychainKey(e) : e \in Emails }

\* the keychain with no entry
EmptyVault == [k \in KeychainKeys |-> None]

\* a keychain that does not replace an entry that exists
store_refresh_token_KeepExisting(v, email, token) ==
    IF IsSome(v[KeychainKey(email)]) THEN v
    ELSE [v EXCEPT ![KeychainKey(email)] = Some(token)]

store_refresh_token(v, email, token) == [v EXCEPT ![KeychainKey(email)] = Some(token)]
get_refresh_token(v, email) == v[KeychainKey(email)]
delete_refresh_token(v, email) == [v EXCEPT ![KeychainKey(email)] = None]

\* every string a file content holds (a content is a JSON object: a record)
UserInfoStrings(u) ==
    {u.email}
    \cup (IF IsSome(u.name) THEN {Unwrap(u.name)} ELSE {})
    \cup (IF IsSome(u.picture) THEN {Unwrap(u.picture)} ELSE {})

StringsOf(content) ==
    LET d == DOMAIN content IN
    { content[k] : k \in d \cap {"email", "access_token"} }
    \cup UNION { (IF IsSome(content[k]) THEN {Unwrap(content[k])} ELSE {}) :
                   k \in d \cap {"name", "picture", "refresh_token"} }
    \cup (IF "user_info" \in d THEN UserInfoStrings(content.user_info) ELSE {})

ContainsAccessToken(content) == StringsOf(content) \cap AccessTokens # {}
ContainsRefreshToken(content) == StringsOf(content) \cap RefreshTokens # {}

\* store_tokens, lines 307-313
MetadataOfTokens(tokens) ==
    [email |-> tokens.user_info.email,
     name |-> tokens.user_info.name,
     picture |-> tokens.user_info.picture,
     expires_at |-> tokens.expires_at,
     scopes_granted |-> << >>]

\* store_tokens, lines 317-322
SessionOfTokens(tokens) ==
    [access_token |-> tokens.access_token,
     refresh_token |-> IF IsSome(tokens.refresh_token)
                       THEN Unwrap(tokens.refresh_token) ELSE "",
     expires_at |-> tokens.expires_at,
     user_info |-> tokens.user_info]

\* serde_json::to_string_pretty of a SessionMetadata: the JSON object with
\* the five fields of the struct, and nothing else
SerializeMetadata(metadata) ==
    [email |-> metadata.email,
     name |-> metadata.name,
     picture |-> metadata.picture,
     expires_at |-> metadata.expires_at,
     scopes_granted |-> metadata.scopes_granted]

\* save_metadata: the new content of the file, or the error.  writable: the
\* file system takes the write
save_metadata(path, metadata, writable) ==
    IF ~IsSome(path) THEN Err("Metadata path not initialized")
    ELSE IF ~writable THEN Err("Failed to write metadata")
    ELSE Ok(Some(SerializeMetadata(metadata)))

----------------------------------------------------------------------------
(* wait_for_oauth_callback, continued: the exchange and store_tokens *)

\* lines 184-232: POST the code and the verifier to the token endpoint
WaitExchange(w, rts, exps) ==
    /\ pc[w] = "exchange"
    /\ exchangeSent' = [exchangeSent EXCEPT ![loc[w].pkce_verifier] = @ + 1]
    /\ \E resp \in TokenResponses(issued, rts, exps) :
         IF resp.kind = "ok"
         THEN /\ logins < MaxLogins
              /\ issued' = issued + 1
              /\ logins' = logins + 1
              /\ pc' = [pc EXCEPT ![w] = "profile"]
              /\ loc' = [loc EXCEPT ![w].sentExchange = TRUE,
                                    ![w].tokens = Some(resp),
                                    ![w].exchangedAt = now,
                                    ![w].expires_in = resp.expires_in]
         ELSE /\ pc' = [pc EXCEPT ![w] = "ret"]
              /\ loc' = [loc EXCEPT ![w] =
                           Returned(w, [loc[w] EXCEPT !.sentExchange = TRUE], Err(
                           CASE resp.kind = "send_failed" -> "Failed to exchange code"
                             [] resp.kind = "non_2xx" -> "Token exchange failed"
                             [] OTHER -> "Failed to parse token response"))]
              /\ UNCHANGED <<issued, logins>>
    /\ UNCHANGED <<pending, listening, nonce, inFlight, now, store>>
    /\ UNCHANGED storeVars

\* line 240-242: None when the response has no expires_in
ExpiresAtOfExchange(expires_in, t) ==
    IF IsSome(expires_in) THEN Some(t + Unwrap(expires_in)) ELSE None

\* a StoredTokens whose refresh_token field is filled from the access token
StoredTokensOf_AccessAsRefresh(tokens, expires_at, user_info) ==
    [access_token |-> tokens.access_token,
     refresh_token |-> Some(tokens.access_token),
     expires_at |-> IF IsSome(expires_at) THEN Unwrap(expires_at) ELSE 0,
     user_info |-> user_info]

\* lines 245-250
StoredTokensOf(tokens, expires_at, user_info) ==
    [access_token |-> tokens.access_token,
     refresh_token |-> tokens.refresh_token,
     expires_at |-> IF IsSome(expires_at) THEN Unwrap(expires_at) ELSE 0,
     user_info |-> user_info]

\* lines 255-259
AuthStatusOfWait(stored, expires_at) ==
    [is_authenticated |-> TRUE, user |-> Some(stored.user_info), expires_at |-> expires_at]

\* a variant that stores the session first and reports a failed profile fetch
\* afterwards
WaitOutcome_ProfileErrorAfterStore(stored, expires_at) ==
    Err("Failed to fetch user info")

\* lines 251-259: what wait_for_oauth_callback returns once store_tokens has
\* succeeded
WaitOutcome(stored, expires_at) ==
    Ok(AuthStatusOfWait(stored, expires_at))

\* lines 237-250 and 321-351: fetch the profile, compute the expiry, build
\* the StoredTokens
WaitProfile(w, users) ==
    /\ pc[w] = "profile"
    /\ \E resp \in ProfileResponses(users) :
         IF resp.kind = "ok"
         THEN LET tokens == Unwrap(loc[w].tokens)
                  expires_at == ExpiresAtOfExchange(tokens.expires_in, now)
              IN  /\ pc' = [pc EXCEPT ![w] = "st_keychain"]
                  /\ loc' = [loc EXCEPT ![w].tokens = None,
                                        ![w].expires_at = expires_at,
                                        ![w].stored =
                                            Some(StoredTokensOf(tokens, expires_at, resp.user_info))]
         ELSE /\ pc' = [pc EXCEPT ![w] = "ret"]
              /\ loc' = [loc EXCEPT ![w] = Returned(w, loc[w], Err(
                           IF resp.kind = "malformed" THEN "Failed to parse user info"
                           ELSE "Failed to fetch user info"))]
    /\ UNCHANGED <<authVars, issued, logins, inFlight, now, store>>
    /\ UNCHANGED storeVars

----------------------------------------------------------------------------
(* TokenStore::store_tokens, run by the call p that holds loc[p].stored *)

\* lines 299-304: the refresh token, if there is one, goes to the keychain
StKeychain(p) ==
    /\ pc[p] = "st_keychain"
    /\ LET tokens == Unwrap(loc[p].stored) IN
       IF IsSome(tokens.refresh_token)
       THEN \E platformOk \in BOOLEAN :
              IF platformOk
              THEN /\ vault' = store_refresh_token(vault, tokens.user_info.email,
                                                   Unwrap(tokens.refresh_token))
                   /\ pc' = [pc EXCEPT ![p] = "st_meta"]
                   /\ loc' = [loc EXCEPT ![p].wrote = TRUE]
              ELSE /\ pc' = [pc EXCEPT ![p] = "ret"]
                   /\ loc' = [loc EXCEPT ![p] = Returned(p, loc[p],
                                Err("Failed to store refresh token in keychain"))]
                   /\ UNCHANGED vault
       ELSE /\ pc' = [pc EXCEPT ![p] = "st_meta"]
            /\ UNCHANGED <<vault, loc>>
    /\ UNCHANGED <<authVars, issued, logins, inFlight, now, store>>
    /\ UNCHANGED <<session, metadata_path, client_id, metaFile, legacyFile>>

\* lines 306-314
StMeta(p) ==
    /\ pc[p] = "st_meta"
    /\ \E writable \in BOOLEAN :
         LET r == save_metadata(metadata_path, MetadataOfTokens(Unwrap(loc[p].stored)),
                                writable)
         IN  IF r.ok
             THEN /\ metaFile' = r.val
                  /\ pc' = [pc EXCEPT ![p] = "st_session"]
                  /\ loc' = [loc EXCEPT ![p].wrote = TRUE]
             ELSE /\ pc' = [pc EXCEPT ![p] = "ret"]
                  /\ loc' = [loc EXCEPT ![p] = Returned(p, loc[p], r)]
                  /\ UNCHANGED metaFile
    /\ UNCHANGED <<authVars, issued, logins, inFlight, now, store>>
    /\ UNCHANGED <<session, metadata_path, client_id, vault, legacyFile>>

\* lines 316-327, and for wait_for_oauth_callback its lines 251-259
StSession(p) ==
    /\ pc[p] = "st_session"
    /\ session' = Some(SessionOfTokens(Unwrap(loc[p].stored)))
    /\ pc' = [pc EXCEPT ![p] = "ret"]
    /\ loc' = [loc EXCEPT ![p] =
                  Returned(p, [loc[p] EXCEPT !.wrote = TRUE],
                           IF p \in Waiters
                           THEN WaitOutcome(Unwrap(loc[p].stored), loc[p].expires_at)
                           ELSE Ok("unit"))]
    /\ UNCHANGED <<authVars, issued, logins, inFlight, now, store>>
    /\ UNCHANGED <<metadata_path, client_id, vault, metaFile, legacyFile>>

\* a direct call of store_tokens with what a code exchange can produce
StoreBegin(t, rts, exps, users) ==
    /\ pc[t] = "idle"
    /\ pc[Initializer] = "done"
    /\ logins < MaxLogins
    /\ issued' = issued + 1
    /\ logins' = logins + 1
    /\ \E rt \in rts, e \in exps, u \in users :
         LET tokens == [access_token |-> AccessToken(issued + 1),
                        refresh_token |-> rt, expires_in |-> e]
             expires_at == ExpiresAtOfExchange(e, now)
         IN  loc' = [loc EXCEPT ![t].stored = Some(StoredTokensOf(tokens, expires_at, u)),
                                ![t].expires_at = expires_at]
    /\ pc' = [pc EXCEPT ![t] = "st_keychain"]
    /\ UNCHANGED <<authVars, inFlight, now, store>>
    /\ UNCHANGED storeVars

----------------------------------------------------------------------------
(* TokenStore::refresh_token_internal *)

\* answers of the token endpoint to a refresh with refresh_token: only a
\* refresh token the provider issued can be answered with a token
RefreshResponses(n, refresh_token, exps) ==
    { [kind |-> "send_failed"], [kind |-> "non_2xx"], [kind |-> "malformed"] }
    \cup (IF refresh_token \in RefreshTokens
          THEN { [kind |-> "ok", access_token |-> AccessToken(n + 1), expires_in |-> e] :
                   e \in exps }
          ELSE {})

\* an expiry that takes the lifetime for a time, without the clock
ExpiresAtOfRefresh_NoClock(expires_in, t) ==
    IF IsSome(expires_in) THEN Unwrap(expires_in) ELSE DEFAULT_EXPIRES_IN

\* lines 258-261
ExpiresAtOfRefresh(expires_in, t) ==
    IF IsSome(expires_in) THEN t + Unwrap(expires_in) ELSE t + DEFAULT_EXPIRES_IN

\* a session that forgets the refresh token it was refreshed with
SessionOfRefresh_EmptyRefreshToken(refresh_token, metadata, access_token, expires_at) ==
    [access_token |-> access_token,
     refresh_token |-> "",
     expires_at |-> expires_at,
     user_info |-> [email |-> metadata.email,
                    name |-> metadata.name,
                    picture |-> metadata.picture]]

\* lines 269-278: the session a successful refresh builds
SessionOfRefresh(refresh_token, metadata, access_token, expires_at) ==
    [access_token |-> access_token,
     refresh_token |-> refresh_token,
     expires_at |-> expires_at,
     user_info |-> [email |-> metadata.email,
                    name |-> metadata.name,
                    picture |-> metadata.picture]]

\* a variant without the status check of lines 242-245: an answer that is
\* not 2xx is read like a token answer, with nothing in it
refresh_token_internal_IgnoresStatus(refresh_token, metadata, resp, t, path, writable) ==
    CASE resp.kind = "send_failed" -> Err("Refresh request failed")
      [] resp.kind = "malformed" -> Err("Failed to parse refresh response")
      [] OTHER ->
           LET expires_at == ExpiresAtOfRefresh(
                                 IF resp.kind = "ok" THEN resp.expires_in ELSE None, t)
               saved == save_metadata(path, [metadata EXCEPT !.expires_at = expires_at],
                                      writable)
           IN  IF ~saved.ok THEN saved
               ELSE Ok([file |-> saved.val,
                        session |-> SessionOfRefresh(
                                        refresh_token, metadata,
                                        IF resp.kind = "ok" THEN resp.access_token ELSE "",
                                        expires_at)])

\* lines 235-279, from the answer on: the new session and the new content of
\* the metadata file, or the error
refresh_token_internal(refresh_token, metadata, resp, t, path, writable) ==
    CASE resp.kind = "send_failed" -> Err("Refresh request failed")
      [] resp.kind = "non_2xx" -> Err("Token refresh failed")
      [] resp.kind = "malformed" -> Err("Failed to parse refresh response")
      [] OTHER ->
           LET expires_at == ExpiresAtOfRefresh(resp.expires_in, t)
               saved == save_metadata(path, [metadata EXCEPT !.expires_at = expires_at],
                                      writable)
           IN  IF ~saved.ok THEN saved
               ELSE Ok([file |-> saved.val,
                        session |-> SessionOfRefresh(refresh_token, metadata,
                                                     resp.access_token, expires_at)])

----------------------------------------------------------------------------
(* TokenStore::get_access_token *)

\* a check that finds every session due for a refresh
NeedsRefresh_Always(expires_at, t) ==
    TRUE

\* line 366
NeedsRefresh(expires_at, t) ==
    expires_at <= t + REFRESH_BUFFER

\* lines 369-375
MetadataOfSession(s) ==
    [email |-> s.user_info.email,
     name |-> s.user_info.name,
     picture |-> s.user_info.picture,
     expires_at |-> s.expires_at,
     scopes_granted |-> << >>]

\* a variant that answers a caller without a session with an empty token
NotAuthenticated_EmptyToken ==
    Ok("")

\* line 388
NotAuthenticated ==
    Err("Not authenticated")

\* lines 356-377 and 214-239: clone the session (the read lock is released at
\* once), check the expiry, and either return the cached token or send the
\* refresh request
GetBegin(g) ==
    /\ pc[g] = "idle"
    /\ pc[Initializer] = "done"
    /\ IF ~IsSome(session)
       THEN /\ pc' = [pc EXCEPT ![g] = "ret"]
            /\ loc' = [loc EXCEPT ![g] = Returned(g, loc[g], NotAuthenticated)]
            /\ UNCHANGED inFlight
       ELSE LET s == Unwrap(session)
                l == [loc[g] EXCEPT !.stale = (s.expires_at <= now + REFRESH_BUFFER),
                                    !.readNow = now]
            IN  IF NeedsRefresh(s.expires_at, now)
                THEN IF ~IsSome(client_id)
                     THEN /\ pc' = [pc EXCEPT ![g] = "ret"]
                          /\ loc' = [loc EXCEPT ![g] =
                                       Returned(g, l, Err("Client ID not initialized"))]
                          /\ UNCHANGED inFlight
                     ELSE /\ inFlight' = inFlight + 1
                          /\ pc' = [pc EXCEPT ![g] = "g_response"]
                          /\ loc' = [loc EXCEPT ![g] =
                                       [l EXCEPT !.snapshot = Some(s), !.refreshed = TRUE]]
                ELSE /\ pc' = [pc EXCEPT ![g] = "ret"]
                     /\ loc' = [loc EXCEPT ![g] =
                                  Returned(g, [l EXCEPT !.returned = Some(s.expires_at)],
                                           Ok(s.access_token))]
                     /\ UNCHANGED inFlight
    /\ UNCHANGED <<authVars, issued, logins, now, store>>
    /\ UNCHANGED storeVars

\* lines 239-267: the answer arrives; the new expiry is computed and written
\* to the metadata file
GetResponse(g, exps) ==
    /\ pc[g] = "g_response"
    /\ inFlight' = inFlight - 1
    /\ LET s == Unwrap(loc[g].snapshot) IN
       \E resp \in RefreshResponses(issued, s.refresh_token, exps), writable \in BOOLEAN :
         LET r == refresh_token_internal(s.refresh_token, MetadataOfSession(s), resp, now,
                                         metadata_path, writable)
         IN  /\ resp.kind = "ok" => issued - logins < MaxRefreshes
             /\ issued' = IF resp.kind = "ok" THEN issued + 1 ELSE issued
             /\ IF r.ok
                THEN /\ metaFile' = r.val.file
                     /\ pc' = [pc EXCEPT ![g] = "g_commit"]
                     /\ loc' = [loc EXCEPT ![g].new_session = Some(r.val.session),
                                           ![g].expires_in = resp.expires_in,
                                           ![g].readNow = now]
                ELSE /\ pc' = [pc EXCEPT ![g] = "ret"]
                     /\ loc' = [loc EXCEPT ![g] = Returned(g, loc[g], r)]
                     /\ UNCHANGED metaFile
    /\ UNCHANGED <<authVars, logins, now, store>>
    /\ UNCHANGED <<session, metadata_path, client_id, vault, legacyFile>>

\* lines 378-383: take the write lock, replace the session, return the token
GetCommit(g) ==
    /\ pc[g] = "g_commit"
    /\ session' = loc[g].new_session
    /\ pc' = [pc EXCEPT ![g] = "ret"]
    /\ loc' = [loc EXCEPT ![g] =
                  Returned(g, [loc[g] EXCEPT !.returned =
                                              Some(Unwrap(loc[g].new_session).expires_at)],
                           Ok(Unwrap(loc[g].new_session).access_token))]
    /\ UNCHANGED <<authVars, issued, logins, inFlight, now, store>>
    /\ UNCHANGED <<metadata_path, client_id, vault, metaFile, legacyFile>>

----------------------------------------------------------------------------
(* TokenStore::get_auth_status, behind the command is_authenticated *)

\* a validity check with a buffer of an hour
SessionIsValid_HourBuffer(expires_at, t) ==
    expires_at > t + DEFAULT_EXPIRES_IN

\* line 338: not expired, with a buffer of 5 minutes
SessionIsValid(expires_at, t) ==
    expires_at > t + REFRESH_BUFFER

\* lines 332-351
get_auth_status(s, t) ==
    IF IsSome(s)
    THEN Ok([is_authenticated |-> SessionIsValid(Unwrap(s).expires_at, t),
             user |-> Some(Unwrap(s).user_info),
             expires_at |-> Some(Unwrap(s).expires_at)])
    ELSE Ok([is_authenticated |-> FALSE, user |-> None, expires_at |-> None])

\* the whole call: the session is read under the read lock, the clock is
\* read while the lock is held
StatusCall(a) ==
    /\ pc[a] = "idle"
    /\ pc[Initializer] = "done"
    /\ pc' = [pc EXCEPT ![a] = "ret"]
    /\ loc' = [loc EXCEPT ![a] = Returned(a, loc[a], get_auth_status(session, now))]
    /\ UNCHANGED <<authVars, issued, logins, inFlight, now, store>>
    /\ UNCHANGED storeVars

----------------------------------------------------------------------------
(* TokenStore::clear_tokens *)

\* a variant that takes an empty email when there is no session
EmailOfSession_OrEmpty(s) ==
    IF IsSome(s) THEN Some(Unwrap(s).user_info.email) ELSE Some("")

\* lines 394-398: the email of the session, if there is one
EmailOfSession(s) ==
    IF IsSome(s) THEN Some(Unwrap(s).user_info.email) ELSE None

\* lines 394-398
ClearBegin(c) ==
    /\ pc[c] = "idle"
    /\ pc[Initializer] = "done"
    /\ pc' = [pc EXCEPT ![c] = "c_keychain"]
    /\ loc' = [loc EXCEPT ![c].email = EmailOfSession(session),
                          ![c].fileEmail = IF IsSome(metaFile)
                                           THEN Some(Unwrap(metaFile).email)
                                           ELSE None]
    /\ UNCHANGED <<authVars, issued, logins, inFlight, now, store>>
    /\ UNCHANGED storeVars

\* lines 400-403
ClearKeychain(c) ==
    /\ pc[c] = "c_keychain"
    /\ IF IsSome(loc[c].email)
       THEN \E platformOk \in BOOLEAN :
              IF platformOk
              THEN /\ vault' = delete_refresh_token(vault, Unwrap(loc[c].email))
                   /\ pc' = [pc EXCEPT ![c] = "c_file"]
                   /\ UNCHANGED loc
              ELSE /\ pc' = [pc EXCEPT ![c] = "ret"]
                   /\ loc' = [loc EXCEPT ![c] = Returned(c, loc[c],
                                Err("Failed to delete refresh token from keychain"))]
                   /\ UNCHANGED vault
       ELSE /\ pc' = [pc EXCEPT ![c] = "c_file"]
            /\ UNCHANGED <<vault, loc>>
    /\ UNCHANGED <<authVars, issued, logins, inFlight, now, store>>
    /\ UNCHANGED <<session, metadata_path, client_id, metaFile, legacyFile>>

\* lines 405-414: the result of remove_file is dropped
ClearFile(c) ==
    /\ pc[c] = "c_file"
    /\ IF IsSome(metadata_path) /\ IsSome(metaFile)
       THEN \E removed \in BOOLEAN : metaFile' = IF removed THEN None ELSE metaFile
       ELSE UNCHANGED metaFile
    /\ pc' = [pc EXCEPT ![c] = "c_mem"]
    /\ UNCHANGED loc
    /\ UNCHANGED <<authVars, issued, logins, inFlight, now, store>>
    /\ UNCHANGED <<session, metadata_path, client_id, vault, legacyFile>>

\* lines 416-423
ClearMem(c) ==
    /\ pc[c] = "c_mem"
    /\ session' = None
    /\ pc' = [pc EXCEPT ![c] = "ret"]
    /\ loc' = [loc EXCEPT ![c] = Returned(c, loc[c], Ok("unit"))]
    /\ UNCHANGED <<authVars, issued, logins, inFlight, now, store>>
    /\ UNCHANGED <<metadata_path, client_id, vault, metaFile, legacyFile>>

----------------------------------------------------------------------------
(* TokenStore::initialize.  It runs in the setup hook, before any command  *)
(* can be invoked (lib.rs lines 82-104), so nothing interleaves with it:   *)
(* migration and load are one step each.                                   *)

\* serde_json::from_str::<SessionMetadata>: email, expires_at and
\* scopes_granted are required, an absent Option field is None, any other
\* field is ignored
ParseSessionMetadata(content) ==
    IF {"email", "expires_at", "scopes_granted"} \subseteq DOMAIN content
    THEN Ok([email |-> content.email,
             name |-> IF "name" \in DOMAIN content THEN content.name ELSE None,
             picture |-> IF "picture" \in DOMAIN content THEN content.picture ELSE None,
             expires_at |-> content.expires_at,
             scopes_granted |-> content.scopes_granted])
    ELSE Err("Failed to parse metadata")

\* serde_json::from_str::<StoredTokens>
ParseStoredTokens(content) ==
    IF {"access_token", "expires_at", "user_info"} \subseteq DOMAIN content
    THEN Ok([access_token |-> content.access_token,
             refresh_token |-> IF "refresh_token" \in DOMAIN content
                               THEN content.refresh_token ELSE None,
             expires_at |-> content.expires_at,
             user_info |-> content.user_info])
    ELSE Err("Failed to parse old session")

\* migrate_from_old_format, lines 128-135
MetadataOfOldTokens(old_tokens) ==
    [email |-> old_tokens.user_info.email,
     name |-> old_tokens.user_info.name,
     picture |-> old_tokens.user_info.picture,
     expires_at |-> old_tokens.expires_at,
     scopes_granted |-> << >>]

InitReturn(r) ==
    /\ pc' = [pc EXCEPT ![Initializer] = "ret"]
    /\ loc' = [loc EXCEPT ![Initializer] = Returned(Initializer, loc[Initializer], r)]

\* initialize returns r out of migrate_from_old_format, local state l
MigrateReturn(l, r) ==
    /\ pc' = [pc EXCEPT ![Initializer] = "ret"]
    /\ loc' = [loc EXCEPT ![Initializer] = Returned(Initializer, l, r)]

\* initialize returns r out of load_from_metadata, in which the platform
\* operation fault has failed ("" when none has)
LoadReturn(fault, r) ==
    /\ pc' = [pc EXCEPT ![Initializer] = "ret"]
    /\ loc' = [loc EXCEPT ![Initializer] =
                  Returned(Initializer,
                           [loc[Initializer] EXCEPT
                              !.fault = fault,
                              !.found = IF ParseSessionMetadata(Unwrap(metaFile)).ok
                                        THEN Some(Unwrap(metaFile).expires_at)
                                        ELSE None],
                           r)]

\* lines 70-101: keep the credentials, create the directory, keep the path,
\* and choose between migration, load and nothing
InitSetup ==
    /\ pc[Initializer] = "idle"
    /\ client_id' = Some("client")
    /\ \E dirOk \in BOOLEAN :
         IF ~dirOk
         THEN /\ InitReturn(Err("Failed to create app data dir"))
              /\ UNCHANGED metadata_path
         ELSE /\ metadata_path' = Some("session_metadata.json")
              /\ IF IsSome(legacyFile)
                 THEN pc' = [pc EXCEPT ![Initializer] = "migrate"] /\ UNCHANGED loc
                 ELSE IF IsSome(metaFile)
                 THEN pc' = [pc EXCEPT ![Initializer] = "load"] /\ UNCHANGED loc
                 ELSE InitReturn(Ok("unit"))
    /\ UNCHANGED <<authVars, issued, logins, inFlight, now, store>>
    /\ UNCHANGED <<session, vault, metaFile, legacyFile>>

\* a migration that leaves the old session file in place
RemoveOldSession_Skipped(old) ==
    old

\* lines 143-145: remove_file(old_path)
RemoveOldSession(old) ==
    None

\* migrate_from_old_format, lines 107-147.  failAt: the step the platform
\* fails, if any
InitMigrate ==
    /\ pc[Initializer] = "migrate"
    /\ \E failAt \in {"none", "read", "keychain", "write", "remove"} :
         LET parsed == ParseStoredTokens(Unwrap(legacyFile))
             old_tokens == parsed.val
             tried == IF IsSome(loc[Initializer].before) THEN loc[Initializer]
                      ELSE [loc[Initializer] EXCEPT !.before = Some(vault)]
             email == old_tokens.user_info.email
             hasRt == IsSome(old_tokens.refresh_token)
             vault1 == IF hasRt
                       THEN store_refresh_token(vault, email, Unwrap(old_tokens.refresh_token))
                       ELSE vault
             saved == Some(SerializeMetadata(MetadataOfOldTokens(old_tokens)))
         IN  IF failAt = "read"
             THEN /\ MigrateReturn(tried, Err("Failed to read old session"))
                  /\ UNCHANGED <<vault, metaFile, legacyFile>>
             ELSE IF ~parsed.ok
             THEN /\ MigrateReturn(tried, parsed)
                  /\ UNCHANGED <<vault, metaFile, legacyFile>>
             ELSE IF failAt = "keychain" /\ hasRt
             THEN /\ MigrateReturn(tried, Err("Failed to store refresh token in keychain"))
                  /\ UNCHANGED <<vault, metaFile, legacyFile>>
             ELSE IF failAt = "write"
             THEN /\ MigrateReturn(tried, Err("Failed to write metadata"))
                  /\ vault' = vault1
                  /\ UNCHANGED <<metaFile, legacyFile>>
             ELSE IF failAt = "remove"
             THEN /\ MigrateReturn(tried, Err("Failed to delete old session file"))
                  /\ vault' = vault1
                  /\ metaFile' = saved
                  /\ UNCHANGED legacyFile
             ELSE /\ vault' = vault1
                  /\ metaFile' = saved
                  /\ legacyFile' = RemoveOldSession(legacyFile)
                  /\ pc' = [pc EXCEPT ![Initializer] = "load"]
                  /\ loc' = [loc EXCEPT ![Initializer] =
                               [tried EXCEPT !.migrated = Some(old_tokens)]]
    /\ UNCHANGED <<authVars, issued, logins, inFlight, now, store>>
    /\ UNCHANGED <<session, metadata_path, client_id>>

\* load_from_metadata, lines 154-206, with the refresh it performs
InitLoad(exps) ==
    /\ pc[Initializer] = "load"
    /\ \E readOk \in BOOLEAN, keychainOk \in BOOLEAN, deleted \in BOOLEAN,
          removed \in BOOLEAN, writable \in BOOLEAN :
         LET parsed == ParseSessionMetadata(Unwrap(metaFile))
             metadata == parsed.val
         IN  IF ~readOk
             THEN /\ LoadReturn("read", Err("Failed to read metadata"))
                  /\ UNCHANGED <<session, vault, metaFile, issued>>
             ELSE IF ~parsed.ok
             THEN /\ LoadReturn("", parsed)
                  /\ UNCHANGED <<session, vault, metaFile, issued>>
             ELSE IF ~keychainOk
             THEN /\ LoadReturn("keychain",
                                Err("Failed to retrieve refresh token from keychain"))
                  /\ UNCHANGED <<session, vault, metaFile, issued>>
             ELSE IF ~IsSome(get_refresh_token(vault, metadata.email))
             THEN /\ metaFile' = IF removed THEN None ELSE metaFile
                  /\ LoadReturn(IF removed THEN "" ELSE "remove", Ok("unit"))
                  /\ UNCHANGED <<session, vault, issued>>
             ELSE LET refresh_token == Unwrap(get_refresh_token(vault, metadata.email)) IN
                  \E resp \in RefreshResponses(issued, refresh_token, exps) :
                    LET r == refresh_token_internal(refresh_token, metadata, resp, now,
                                                    metadata_path, writable)
                    IN  /\ resp.kind = "ok" => issued - logins < MaxRefreshes
                        /\ issued' = IF resp.kind = "ok" THEN issued + 1 ELSE issued
                        /\ IF r.ok
                           THEN /\ session' = Some(r.val.session)
                                /\ metaFile' = r.val.file
                                /\ LoadReturn("", Ok("unit"))
                                /\ UNCHANGED vault
                           ELSE IF metadata.expires_at <= now
                           THEN /\ vault' = IF deleted
                                            THEN delete_refresh_token(vault, metadata.email)
                                            ELSE vault
                                /\ metaFile' = IF removed THEN None ELSE metaFile
                                /\ LoadReturn(IF resp.kind = "ok" THEN "write"
                                              ELSE IF ~deleted THEN "delete"
                                              ELSE IF ~removed THEN "remove"
                                              ELSE "", Ok("unit"))
                                /\ UNCHANGED session
                           ELSE /\ LoadReturn(IF resp.kind = "ok" THEN "write" ELSE "",
                                              Ok("unit"))
                                /\ UNCHANGED <<session, vault, metaFile>>
    /\ UNCHANGED <<authVars, logins, inFlight, now, store>>
    /\ UNCHANGED <<metadata_path, client_id, legacyFile>>

\* the setup hook is over: the commands can be invoked
Ready ==
    /\ pc[Initializer] = "ret"
    /\ pc' = [pc EXCEPT ![Initializer] = "done"]
    /\ loc' = [loc EXCEPT ![Initializer] =
                  [InitializerIdle EXCEPT !.result = loc[Initializer].result]]
    /\ UNCHANGED <<authVars, issued, logins, inFlight, now, store>>
    /\ UNCHANGED storeVars

----------------------------------------------------------------------------
(* The clock *)

StartTime == 2 * DEFAULT_EXPIRES_IN

Tick ==
    /\ pc[Initializer] = "done"
    /\ now < StartTime + MaxTicks * DEFAULT_EXPIRES_IN
    /\ now' = now + DEFAULT_EXPIRES_IN
    /\ UNCHANGED <<authVars, issued, logins, inFlight, store, pc, loc>>
    /\ UNCHANGED storeVars

----------------------------------------------------------------------------
(* The caller takes the result of a call that has returned *)

IdleLoc(p) ==
    CASE p \in Starters -> StarterIdle
      [] p \in Waiters -> WaiterIdle
      [] p \in Getters -> GetterIdle
      [] p \in Clearers -> ClearerIdle
      [] p \in Storers -> StorerIdle
      [] p \in StatusCallers -> StatusIdle
      [] p = Initializer -> InitializerIdle

Dismiss(p) ==
    /\ pc[p] = "ret"
    /\ p # Initializer
    /\ pc' = [pc EXCEPT ![p] = "idle"]
    /\ loc' = [loc EXCEPT ![p] = IdleLoc(p)]
    /\ UNCHANGED <<authVars, issued, logins, inFlight, now, store>>
    /\ UNCHANGED storeVars

----------------------------------------------------------------------------
(* The authorization flow: start_google_auth and wait_for_oauth_callback   *)
(* calls on an application whose setup has run on an empty data directory  *)

AuthProcs == Starters \cup Waiters

Init ==
    /\ pending = None
    /\ listening = {}
    /\ nonce = 0
    /\ exchangeSent = [v \in Verifiers |-> 0]
    /\ issued = 0
    /\ logins = 0
    /\ inFlight = 0
    /\ session = None
    /\ metadata_path = Some("session_metadata.json")
    /\ client_id = Some("client")
    /\ vault = EmptyVault
    /\ metaFile = None
    /\ legacyFile = None
    /\ now = StartTime
    /\ store = EmptyCache
    /\ pc = [p \in AuthProcs |-> "idle"]
    /\ loc = [p \in AuthProcs |-> IdleLoc(p)]

Next ==
    \/ \E s \in Starters : StartProbe(s)
    \/ \E s \in Starters : StartStore(s)
    \/ \E w \in Waiters : WaitBegin(w)
    \/ \E w \in Waiters : WaitBind(w)
    \/ \E w \in Waiters : WaitAccept(w)
    \/ \E w \in Waiters : WaitVerify(w)
    \/ \E w \in Waiters : WaitExchange(w, {Some("rt1")}, {Some(DEFAULT_EXPIRES_IN)})
    \/ \E w \in Waiters : WaitProfile(w, {UserA})
    \/ \E w \in Waiters : StKeychain(w)
    \/ \E w \in Waiters : StMeta(w)
    \/ \E w \in Waiters : StSession(w)
    \/ \E p \in AuthProcs : Dismiss(p)

Spec == Init /\ [][Next]_vars

----------------------------------------------------------------------------
(* The token store: initialize on whatever an earlier run left on disk and *)
(* in the keychain, then get_access_token, clear_tokens and store_tokens   *)
(* calls while the clock advances                                          *)

StoreProcs == {Initializer} \cup Getters \cup Clearers \cup Storers

\* auth_session.json as an earlier version wrote it for account UserA
LegacyContent(rt, expires_at) ==
    [access_token |-> AccessToken(0), refresh_token |-> rt, expires_at |-> expires_at,
     user_info |-> UserA]

\* an auth_session.json cut short
LegacyTruncated == [refresh_token |-> Some("rt1")]

\* session_metadata.json as an earlier run wrote it for account UserA
MetaContent(expires_at) ==
    SerializeMetadata([email |-> UserA.email, name |-> UserA.name,
                       picture |-> UserA.picture, expires_at |-> expires_at,
                       scopes_granted |-> << >>])

\* a session_metadata.json cut short
MetaTruncated == [email |-> UserA.email]

\* the keychain with entry x for account UserA
VaultWith(x) == [EmptyVault EXCEPT ![KeychainKey(UserA.email)] = x]

\* the state after TokenStore::new(), on a disk and a keychain as given, with
\* the calls procs still to be made
InitDiskFor(procs, vaults, metas, legacies) ==
    /\ pending = None
    /\ listening = {}
    /\ nonce = 0
    /\ exchangeSent = [v \in Verifiers |-> 0]
    /\ issued = 0
    /\ logins = 0
    /\ inFlight = 0
    /\ session = None
    /\ metadata_path = None
    /\ client_id = None
    /\ vault \in vaults
    /\ metaFile \in metas
    /\ legacyFile \in legacies
    /\ now = StartTime
    /\ store = EmptyCache
    /\ pc = [p \in procs |-> "idle"]
    /\ loc = [p \in procs |-> IdleLoc(p)]

InitDisk(vaults, metas, legacies) ==
    InitDiskFor(StoreProcs, vaults, metas, legacies)

InitStore ==
    InitDisk({ VaultWith(None), VaultWith(Some("rt2")) },
             { None, Some(MetaContent(StartTime - DEFAULT_EXPIRES_IN)),
               Some(MetaContent(StartTime + DEFAULT_EXPIRES_IN)), Some(MetaTruncated) },
             { None, Some(LegacyContent(Some("rt1"), StartTime - DEFAULT_EXPIRES_IN)),
               Some(LegacyTruncated) })

NextStore ==
    \/ InitSetup
    \/ InitMigrate
    \/ InitLoad(ExpiresIns)
    \/ Ready
    \/ \E g \in Getters : GetBegin(g)
    \/ \E g \in Getters : GetResponse(g, ExpiresIns)
    \/ \E g \in Getters : GetCommit(g)
    \/ \E c \in Clearers : ClearBegin(c)
    \/ \E c \in Clearers : ClearKeychain(c)
    \/ \E c \in Clearers : ClearFile(c)
    \/ \E c \in Clearers : ClearMem(c)
    \/ \E t \in Storers : StoreBegin(t, {None, Some("rt2")}, {Some(DEFAULT_EXPIRES_IN)}, {UserC})
    \/ \E t \in Storers : StKeychain(t)
    \/ \E t \in Storers : StMeta(t)
    \/ \E t \in Storers : StSession(t)
    \/ \E p \in StoreProcs : Dismiss(p)
    \/ Tick

SpecStore == InitStore /\ [][NextStore]_vars

----------------------------------------------------------------------------
(* The token store of a user who is signed in: the setup is over, the      *)
(* session of a@b.com is in memory, its metadata in the file and its       *)
(* refresh token in the keychain, as store_tokens leaves them;             *)
(* get_access_token and store_tokens are then invoked concurrently         *)

SignedInProcs == {Initializer} \cup Getters \cup Storers

\* lines 306-325: the session and the file store_tokens has left, for a
\* token that expires at expires_at
SignedInSession(expires_at) ==
    [access_token |-> AccessToken(0),
     refresh_token |-> "rt2",
     expires_at |-> expires_at,
     user_info |-> UserA]

InitSignedIn ==
    /\ pending = None
    /\ listening = {}
    /\ nonce = 0
    /\ exchangeSent = [v \in Verifiers |-> 0]
    /\ issued = 0
    /\ logins = 0
    /\ inFlight = 0
    /\ metadata_path = Some("session_metadata.json")
    /\ client_id = Some("client")
    /\ vault = VaultWith(Some("rt2"))
    /\ legacyFile = None
    /\ now = StartTime
    /\ store = EmptyCache
    /\ \E expires_at \in {StartTime + REFRESH_BUFFER, StartTime + DEFAULT_EXPIRES_IN} :
         /\ session = Some(SignedInSession(expires_at))
         /\ metaFile = Some(MetaContent(expires_at))
    /\ pc = [p \in SignedInProcs |-> IF p = Initializer THEN "done" ELSE "idle"]
    /\ loc = [p \in SignedInProcs |-> IdleLoc(p)]

NextSignedIn ==
    \/ \E g \in Getters : GetBegin(g)
    \/ \E g \in Getters : GetResponse(g, {None, Some(DEFAULT_EXPIRES_IN)})
    \/ \E g \in Getters : GetCommit(g)
    \/ \E t \in Storers :
          StoreBegin(t, {Some("rt1")}, {Some(DEFAULT_EXPIRES_IN)}, {UserA, UserC})
    \/ \E t \in Storers : StKeychain(t)
    \/ \E t \in Storers : StMeta(t)
    \/ \E t \in Storers : StSession(t)
    \/ \E p \in SignedInProcs : Dismiss(p)
    \/ Tick

SpecSignedIn == InitSignedIn /\ [][NextSignedIn]_vars

----------------------------------------------------------------------------
(* The token store used by one caller: after the setup hook the commands   *)
(* store_tokens, get_access_token, is_authenticated and logout are invoked *)
(* one at a time, each after the one before has returned, while the clock  *)
(* advances                                                                *)

SeqGetters == { "g1" }

SeqProcs == {Initializer} \cup SeqGetters \cup Clearers \cup Storers \cup StatusCallers

\* no call other than p is under way or has a result not yet taken
Alone(p) ==
    \A q \in DOMAIN pc \ {p} : pc[q] \in {"idle", "done"}

\* no call is under way: a status query can come right after a call has
\* returned
NoCallRunning ==
    \A q \in DOMAIN pc : pc[q] \in {"idle", "ret", "done"}

InitSeq ==
    InitDiskFor(SeqProcs,
                { VaultWith(None), VaultWith(Some("rt2")) },
                { None, Some(MetaContent(StartTime - DEFAULT_EXPIRES_IN)),
                  Some(MetaContent(StartTime + DEFAULT_EXPIRES_IN)) },
                { None, Some(LegacyContent(Some("rt1"), StartTime - DEFAULT_EXPIRES_IN)) })

NextSeq ==
    \/ InitSetup
    \/ InitMigrate
    \/ InitLoad(ExpiresIns)
    \/ Ready
    \/ \E g \in SeqGetters : Alone(g) /\ GetBegin(g)
    \/ \E g \in SeqGetters : GetResponse(g, ExpiresIns)
    \/ \E g \in SeqGetters : GetCommit(g)
    \/ \E c \in Clearers : Alone(c) /\ ClearBegin(c)
    \/ \E c \in Clearers : ClearKeychain(c)
    \/ \E c \in Clearers : ClearFile(c)
    \/ \E c \in Clearers : ClearMem(c)
    \/ \E t \in Storers :
          Alone(t) /\ StoreBegin(t, {None, Some("rt1")}, ExpiresIns, {UserA, UserC})
    \/ \E t \in Storers : StKeychain(t)
    \/ \E t \in Storers : StMeta(t)
    \/ \E t \in Storers : StSession(t)
    \/ \E a \in StatusCallers : NoCallRunning /\ StatusCall(a)
    \/ \E p \in SeqProcs : Dismiss(p)
    \/ Tick

SpecSeq == InitSeq /\ [][NextSeq]_vars

----------------------------------------------------------------------------
(* Startup: the setup hook runs initialize on whatever an earlier run left *)
(* on disk and in the keychain; the application is then closed and started *)
(* again, with an empty memory and the same disk and keychain              *)

\* an auth_session.json without refresh token
LegacyWithoutRefreshToken ==
    [access_token |-> AccessToken(0), expires_at |-> StartTime - DEFAULT_EXPIRES_IN,
     user_info |-> UserA]

\* the application exits after the setup hook and is started again: the
\* managed state is built anew, the disk and the keychain are as they were
Restart ==
    /\ pc[Initializer] = "ret"
    /\ loc[Initializer].runs < MaxRestarts
    /\ \E later \in BOOLEAN :
         /\ later => now < StartTime + MaxTicks * DEFAULT_EXPIRES_IN
         /\ now' = IF later THEN now + DEFAULT_EXPIRES_IN ELSE now
    /\ pending' = None
    /\ listening' = {}
    /\ inFlight' = 0
    /\ session' = None
    /\ metadata_path' = None
    /\ client_id' = None
    /\ pc' = [pc EXCEPT ![Initializer] = "idle"]
    /\ loc' = [loc EXCEPT ![Initializer] =
                  [InitializerIdle EXCEPT !.runs = loc[Initializer].runs + 1,
                                          !.before = loc[Initializer].before]]
    /\ UNCHANGED <<nonce, exchangeSent, issued, logins, vault, metaFile, legacyFile, store>>

InitStartup ==
    InitDiskFor({Initializer},
                { VaultWith(None), VaultWith(Some("rt2")) },
                { None, Some(MetaContent(StartTime - DEFAULT_EXPIRES_IN)),
                  Some(MetaContent(StartTime + REFRESH_BUFFER)),
                  Some(MetaContent(StartTime + DEFAULT_EXPIRES_IN)), Some(MetaTruncated) },
                { None, Some(LegacyContent(Some("rt1"), StartTime - DEFAULT_EXPIRES_IN)),
                  Some(LegacyContent(Some("rt1"), StartTime + 2 * DEFAULT_EXPIRES_IN)),
                  Some(LegacyWithoutRefreshToken), Some(LegacyTruncated) })

NextStartup ==
    \/ InitSetup
    \/ InitMigrate
    \/ InitLoad(ExpiresIns)
    \/ Restart

SpecStartup == InitStartup /\ [][NextStartup]_vars

----------------------------------------------------------------------------
(* One caller signing in: after a setup on an empty data directory,        *)
(* start_google_auth, then wait_for_oauth_callback and get_access_token    *)
(* one at a time, against a provider that answers with any expires_in,     *)
(* while the clock advances, also in the middle of a call                  *)

SeqWaiters == { "w1" }

LoginProcs == {Initializer} \cup Starters \cup SeqWaiters \cup SeqGetters

InitLogin ==
    /\ pending = None
    /\ listening = {}
    /\ nonce = 0
    /\ exchangeSent = [v \in Verifiers |-> 0]
    /\ issued = 0
    /\ logins = 0
    /\ inFlight = 0
    /\ session = None
    /\ metadata_path = Some("session_metadata.json")
    /\ client_id = Some("client")
    /\ vault = EmptyVault
    /\ metaFile = None
    /\ legacyFile = None
    /\ now = StartTime
    /\ store = EmptyCache
    /\ pc = [p \in LoginProcs |-> IF p = Initializer THEN "done" ELSE "idle"]
    /\ loc = [p \in LoginProcs |-> IdleLoc(p)]

NextLogin ==
    \/ \E s \in Starters : StartProbe(s)
    \/ \E s \in Starters : StartStore(s)
    \/ \E w \in SeqWaiters : Alone(w) /\ WaitBegin(w)
    \/ \E w \in SeqWaiters : WaitBind(w)
    \/ \E w \in SeqWaiters : WaitAccept(w)
    \/ \E w \in SeqWaiters : WaitVerify(w)
    \/ \E w \in SeqWaiters : WaitExchange(w, {None, Some("rt1")}, ExpiresIns)
    \/ \E w \in SeqWaiters : WaitProfile(w, {UserA, UserC})
    \/ \E w \in SeqWaiters : StKeychain(w)
    \/ \E w \in SeqWaiters : StMeta(w)
    \/ \E w \in SeqWaiters : StSession(w)
    \/ \E g \in SeqGetters : Alone(g) /\ GetBegin(g)
    \/ \E g \in SeqGetters : GetResponse(g, ExpiresIns)
    \/ \E g \in SeqGetters : GetCommit(g)
    \/ \E p \in LoginProcs : Dismiss(p)
    \/ Tick

SpecLogin == InitLogin /\ [][NextLogin]_vars

----------------------------------------------------------------------------
(* Signing in against a provider that may never answer. The exchange is    *)
(* sent by a client built with a 30 s timeout (mod.rs lines 187-190), so   *)
(* it ends, with the send error if nothing came; fetch_user_info sends its *)
(* request with reqwest::Client::new() (line 322), which has no timeout:   *)
(* when the provider never answers, the call waits in send().await         *)

\* lines 322-328: the profile request is never answered and nothing ends it
ProfileStall(w) ==
    /\ pc[w] = "profile"
    /\ pc' = [pc EXCEPT ![w] = "hung"]
    /\ UNCHANGED <<authVars, issued, logins, inFlight, now, store, loc>>
    /\ UNCHANGED storeVars

\* the steps of wait_for_oauth_callback once the callback has been received;
\* each of them is taken when it can be: the comparison and the store are
\* local, the exchange is bounded by its timeout, and the profile request
\* has been answered unless the call hangs
WaitAfterCallback(w) ==
    \/ WaitVerify(w)
    \/ WaitExchange(w, {None, Some("rt1")}, ExpiresIns)
    \/ WaitProfile(w, {UserA, UserC})
    \/ ProfileStall(w)
    \/ StKeychain(w)
    \/ StMeta(w)
    \/ StSession(w)

NextLive ==
    \/ NextLogin
    \/ \E w \in SeqWaiters : ProfileStall(w)

SpecLive ==
    /\ InitLogin
    /\ [][NextLive]_vars
    /\ \A w \in SeqWaiters : WF_vars(WaitAfterCallback(w))

----------------------------------------------------------------------------
(* The request buffer of the callback server. A &str is the sequence of    *)
(* its characters, one string of length one each, so that positions,       *)
(* slices and splits are those of the code                                 *)

MaxPairs == 2

\* str::find: the byte offset (from 0) of the first occurrence of pat
find(s, pat) ==
    LET hits == { i \in 0..(Len(s) - Len(pat)) : SubSeq(s, i + 1, i + Len(pat)) = pat }
    IN  IF hits = {} THEN None
        ELSE Some(CHOOSE i \in hits : \A j \in hits : i <= j)

\* str::split on one character: every piece, the empty ones too
RECURSIVE split(_, _)
split(s, sep) ==
    LET at == find(s, <<sep>>) IN
    IF ~IsSome(at) THEN <<s>>
    ELSE <<SubSeq(s, 1, Unwrap(at))>> \o split(SubSeq(s, Unwrap(at) + 2, Len(s)), sep)

\* the value of a hexadecimal digit
HexValue ==
    [h \in {"0", "1", "2", "3", "4", "5", "6", "7", "8", "9"} |->
        CASE h = "0" -> 0 [] h = "1" -> 1 [] h = "2" -> 2 [] h = "3" -> 3
          [] h = "4" -> 4 [] h = "5" -> 5 [] h = "6" -> 6 [] h = "7" -> 7
          [] h = "8" -> 8 [] OTHER -> 9]
    @@ [h \in {"A", "B", "C", "D", "E", "F"} |->
        CASE h = "A" -> 10 [] h = "B" -> 11 [] h = "C" -> 12 [] h = "D" -> 13
          [] h = "E" -> 14 [] OTHER -> 15]
    @@ [h \in {"a", "b", "c", "d", "e", "f"} |->
        CASE h = "a" -> 10 [] h = "b" -> 11 [] h = "c" -> 12 [] h = "d" -> 13
          [] h = "e" -> 14 [] OTHER -> 15]

\* the character of a decoded byte: the ASCII characters the requests of this
\* model can hold; a byte from 128 on is not UTF-8 on its own, and no escape
\* of these requests continues it
CharOfByte(n) ==
    CASE n = 32 -> " " [] n = 38 -> "&" [] n = 47 -> "/" [] n = 51 -> "3"
      [] n = 61 -> "=" [] n = 63 -> "?" [] n = 65 -> "A" [] n = 66 -> "B"
      [] n = 67 -> "C" [] n = 68 -> "D"
      [] n >= 128 -> "not UTF-8"
      [] OTHER -> "other ASCII"

\* urlencoding::decode, the bytes: %XY with two hexadecimal digits is the
\* byte XY, everything else stands for itself
RECURSIVE DecodeBytes(_)
DecodeBytes(s) ==
    IF s = << >> THEN << >>
    ELSE IF /\ s[1] = "%"
            /\ Len(s) >= 3
            /\ s[2] \in DOMAIN HexValue
            /\ s[3] \in DOMAIN HexValue
    THEN <<CharOfByte(16 * HexValue[s[2]] + HexValue[s[3]])>>
             \o DecodeBytes(SubSeq(s, 4, Len(s)))
    ELSE <<s[1]>> \o DecodeBytes(Tail(s))

\* urlencoding::decode(value).ok(): None when the bytes are not UTF-8
percent_decode(value) ==
    LET bytes == DecodeBytes(value) IN
    IF \E i \in 1..Len(bytes) : bytes[i] = "not UTF-8" THEN None ELSE Some(bytes)

\* line 357: the slice &request[query_start + 1..query_end] panics when it
\* starts after its end, that is when " HTTP" comes before the first `?`
SlicePanics(request) ==
    LET query_start == find(request, <<"?">>)
        http == find(request, <<" ", "H", "T", "T", "P">>)
    IN  /\ IsSome(query_start)
        /\ IsSome(http)
        /\ Unwrap(query_start) + 1 > Unwrap(http)

\* lines 359-366: the first pair, in order, that has a key and a value and
\* whose key is param; parts.next() twice takes the first two pieces of the
\* pair split on `=`
RECURSIVE FirstMatch(_, _)
FirstMatch(pairs, param) ==
    IF pairs = << >> THEN None
    ELSE LET parts == split(Head(pairs), "=") IN
         IF Len(parts) >= 2 /\ parts[1] = param
         THEN percent_decode(parts[2])
         ELSE FirstMatch(Tail(pairs), param)

\* lines 354-368, for a request whose slice does not panic
extract_param(request, param) ==
    LET query_start == find(request, <<"?">>) IN
    IF ~IsSome(query_start) THEN None
    ELSE LET http == find(request, <<" ", "H", "T", "T", "P">>)
             query_end == IF IsSome(http) THEN Unwrap(http) ELSE Len(request)
             query == SubSeq(request, Unwrap(query_start) + 2, query_end)
         IN  FirstMatch(split(query, "&"), param)

\* the parameter names of lines 285 and 287
CodeParam == <<"c", "o", "d", "e">>
StateParam == <<"s", "t", "a", "t", "e">>

\* the pairs a query string is made of: a key, and a value after `=` unless
\* the pair is a bare key; a value may hold `=` and escapes
QueryPairs ==
    { [key |-> k, hasValue |-> TRUE, value |-> v] :
        k \in {CodeParam, StateParam},
        v \in { <<"A", "B", "C">>, <<"X", "Y", "Z">>, <<"A", "=", "B">>,
                <<"A", "%", "3", "D", "B">>, <<"%", "D", "D">> } }
    \cup { [key |-> k, hasValue |-> FALSE, value |-> << >>] :
             k \in {CodeParam, StateParam} }

RECURSIVE JoinPairs(_)
JoinPairs(pairs) ==
    IF pairs = << >> THEN << >>
    ELSE LET p == Head(pairs)
             text == IF p.hasValue THEN p.key \o <<"=">> \o p.value ELSE p.key
         IN  IF Len(pairs) = 1 THEN text
             ELSE text \o <<"&">> \o JoinPairs(Tail(pairs))

\* the text of a request: the request line with or without a query string,
\* then what follows the target
RequestOf(parts) ==
    (IF parts.query THEN <<"G", "E", "T", " ", "/", "?">> ELSE <<"G", "E", "T", " ", "/">>)
    \o JoinPairs(parts.pairs) \o parts.tail

\* the requests the listener reads: up to MaxPairs pairs; after the target
\* nothing, the protocol version, or the version and a line that holds a `?`
RequestParts ==
    { [query |-> q, pairs |-> ps, tail |-> t] :
        q \in BOOLEAN,
        ps \in UNION { [1..n -> QueryPairs] : n \in 0..MaxPairs },
        t \in { << >>, <<" ", "H", "T", "T", "P", "/", "1", ".", "1">>,
                <<" ", "H", "T", "T", "P", "/", "1", ".", "1", "\n", "?">> } }

CallbackTasks == { "b1" }

\* lines 279-283: the request has been read
InitParse ==
    /\ pending = None
    /\ listening = {}
    /\ nonce = 0
    /\ exchangeSent = [v \in Verifiers |-> 0]
    /\ issued = 0
    /\ logins = 0
    /\ inFlight = 0
    /\ session = None
    /\ metadata_path = None
    /\ client_id = None
    /\ vault = EmptyVault
    /\ metaFile = None
    /\ legacyFile = None
    /\ now = StartTime
    /\ store = EmptyCache
    /\ pc = [b \in CallbackTasks |-> "code"]
    /\ \E parts \in RequestParts :
         loc = [b \in CallbackTasks |->
                  [parts |-> parts,        \* ghost: what the request was made of
                   request |-> RequestOf(parts),
                   code |-> None,
                   received_state |-> None,
                   result |-> None]]

\* line 285: the code is extracted; the blocking task ends there when the
\* slice panics
ParseCode(b) ==
    /\ pc[b] = "code"
    /\ IF SlicePanics(loc[b].request)
       THEN /\ pc' = [pc EXCEPT ![b] = "panicked"]
            /\ UNCHANGED loc
       ELSE LET code == extract_param(loc[b].request, CodeParam) IN
            IF IsSome(code)
            THEN /\ pc' = [pc EXCEPT ![b] = "state"]
                 /\ loc' = [loc EXCEPT ![b].code = code]
            ELSE /\ pc' = [pc EXCEPT ![b] = "ret"]
                 /\ loc' = [loc EXCEPT ![b].result =
                               Some(Err("No authorization code in callback"))]
    /\ UNCHANGED <<authVars, issued, logins, inFlight, now, store>>
    /\ UNCHANGED storeVars

\* lines 286-317: the state is extracted, the page written, the pair returned
ParseState(b) ==
    /\ pc[b] = "state"
    /\ LET received_state == extract_param(loc[b].request, StateParam) IN
       IF IsSome(received_state)
       THEN loc' = [loc EXCEPT ![b].received_state = received_state,
                               ![b].result = Some(Ok("pair"))]
       ELSE loc' = [loc EXCEPT ![b].result =
                      Some(Err("No state parameter in callback"))]
    /\ pc' = [pc EXCEPT ![b] = "ret"]
    /\ UNCHANGED <<authVars, issued, logins, inFlight, now, store>>
    /\ UNCHANGED storeVars

NextParse ==
    \/ \E b \in CallbackTasks : ParseCode(b)
    \/ \E b \in CallbackTasks : ParseState(b)

SpecParse == InitParse /\ [][NextParse]_vars

----------------------------------------------------------------------------
(* RustCache (cache.rs): get, set, remove, invalidate_pattern,             *)
(* cleanup_expired, clear and stats, called by the threads of the command  *)
(* handlers. In these specifications `now` is Instant::now(), in seconds;  *)
(* each method holds the lock of the store for one step, and get, which    *)
(* drops its read lock before it removes, takes two                        *)

\* seconds that pass in one behaviour
MaxElapsed == 2

CacheValues == { "v1", "v2" }
Ttls == { 0, 1 }

\* patterns of invalidate_pattern: "p*", "e", "*"
Patterns == { <<"p", "*">>, <<"e">>, <<"*">> }

CacheThreads == { "h1", "h2" }
SeqCacheThreads == { "h1" }

CacheIdle ==
    [op |-> "",                    \* ghost: the method called
     key |-> << >>,
     value |-> "",                 \* ghost: the value given to set
     ttl |-> 0,                    \* ghost: the ttl given to set
     result |-> None]

\* lines 23-29
CacheEntryNew(value, ttl_seconds, t) ==
    [value |-> value, created_at |-> t, ttl |-> ttl_seconds]

\* an expiry that counts an entry as expired when its age reaches the ttl
is_expired_AtTtl(entry, t) ==
    t - entry.created_at >= entry.ttl

\* lines 31-33
is_expired(entry, t) ==
    t - entry.created_at > entry.ttl

\* str::ends_with('*')
EndsWithStar(pattern) ==
    Len(pattern) > 0 /\ pattern[Len(pattern)] = "*"

\* str::trim_end_matches('*'): without any of its trailing `*`
RECURSIVE TrimEndStars(_)
TrimEndStars(pattern) ==
    IF EndsWithStar(pattern) THEN TrimEndStars(SubSeq(pattern, 1, Len(pattern) - 1))
    ELSE pattern

\* lines 93-99: the filter of invalidate_pattern
MatchesPattern(k, pattern) ==
    IF EndsWithStar(pattern)
    THEN LET pattern_prefix == TrimEndStars(pattern) IN
         /\ Len(pattern_prefix) <= Len(k)
         /\ SubSeq(k, 1, Len(pattern_prefix)) = pattern_prefix
    ELSE k = pattern

\* the method op, called with key k, returns r
CacheReturn(t, op, k, r) ==
    /\ pc' = [pc EXCEPT ![t] = "ret"]
    /\ loc' = [loc EXCEPT ![t] = [CacheIdle EXCEPT !.op = op, !.key = k,
                                                    !.result = Some(r)]]

\* lines 60-63 and 69: under the read lock, look the key up; a live entry is
\* returned, an expired one is left for the removal
CacheGet(t) ==
    /\ pc[t] = "idle"
    /\ \E k \in CacheKeys :
         IF ~IsSome(store[k])
         THEN CacheReturn(t, "get", k, None)
         ELSE IF is_expired(Unwrap(store[k]), now)
         THEN /\ pc' = [pc EXCEPT ![t] = "expired"]
              /\ loc' = [loc EXCEPT ![t].op = "get", ![t].key = k]
         ELSE CacheReturn(t, "get", k, Some(Unwrap(store[k]).value))
    /\ UNCHANGED <<authVars, issued, logins, inFlight, now, store>>
    /\ UNCHANGED storeVars

\* lines 64-67: the read lock is gone; remove(key) takes the write lock and
\* removes whatever is under the key now
CacheGetRemove(t) ==
    /\ pc[t] = "expired"
    /\ store' = [store EXCEPT ![loc[t].key] = None]
    /\ CacheReturn(t, "get", loc[t].key, None)
    /\ UNCHANGED <<authVars, issued, logins, inFlight, now>>
    /\ UNCHANGED storeVars

\* lines 74-78
CacheSet(t) ==
    /\ pc[t] = "idle"
    /\ \E k \in CacheKeys, v \in CacheValues, ttl_seconds \in Ttls :
         /\ store' = [store EXCEPT ![k] = Some(CacheEntryNew(v, ttl_seconds, now))]
         /\ pc' = [pc EXCEPT ![t] = "ret"]
         /\ loc' = [loc EXCEPT ![t] = [CacheIdle EXCEPT !.op = "set", !.key = k,
                                                         !.value = v,
                                                         !.ttl = ttl_seconds,
                                                         !.result = Some("unit")]]
    /\ UNCHANGED <<authVars, issued, logins, inFlight, now>>
    /\ UNCHANGED storeVars

\* lines 81-83
CacheRemove(t) ==
    /\ pc[t] = "idle"
    /\ \E k \in CacheKeys :
         /\ store' = [store EXCEPT ![k] = None]
         /\ CacheReturn(t, "remove", k,
                        IF IsSome(store[k]) THEN Some(Unwrap(store[k]).value) ELSE None)
    /\ UNCHANGED <<authVars, issued, logins, inFlight, now>>
    /\ UNCHANGED storeVars

\* lines 87-109
CacheInvalidate(t) ==
    /\ pc[t] = "idle"
    /\ \E pattern \in Patterns :
         LET keys_to_remove ==
                 { k \in CacheKeys : IsSome(store[k]) /\ MatchesPattern(k, pattern) }
         IN  /\ store' = [k \in CacheKeys |->
                            IF k \in keys_to_remove THEN None ELSE store[k]]
             /\ CacheReturn(t, "invalidate", pattern, Cardinality(keys_to_remove))
    /\ UNCHANGED <<authVars, issued, logins, inFlight, now>>
    /\ UNCHANGED storeVars

\* lines 112-127
CacheCleanup(t) ==
    /\ pc[t] = "idle"
    /\ LET keys_to_remove ==
               { k \in CacheKeys : IsSome(store[k]) /\ is_expired(Unwrap(store[k]), now) }
       IN  /\ store' = [k \in CacheKeys |->
                          IF k \in keys_to_remove THEN None ELSE store[k]]
           /\ CacheReturn(t, "cleanup", << >>, Cardinality(keys_to_remove))
    /\ UNCHANGED <<authVars, issued, logins, inFlight, now>>
    /\ UNCHANGED storeVars

\* lines 142-146
CacheClear(t) ==
    /\ pc[t] = "idle"
    /\ store' = EmptyCache
    /\ CacheReturn(t, "clear", << >>, "unit")
    /\ UNCHANGED <<authVars, issued, logins, inFlight, now>>
    /\ UNCHANGED storeVars

\* lines 149-161
CacheStats(t) ==
    /\ pc[t] = "idle"
    /\ LET total == Cardinality({ k \in CacheKeys : IsSome(store[k]) })
           expired == Cardinality({ k \in CacheKeys :
                                     IsSome(store[k]) /\ is_expired(Unwrap(store[k]), now) })
       IN  CacheReturn(t, "stats", << >>,
                       [total_entries |-> total, expired_entries |-> expired,
                        active_entries |-> total - expired])
    /\ UNCHANGED <<authVars, issued, logins, inFlight, now, store>>
    /\ UNCHANGED storeVars

\* the handler has answered: the thread is free for the next command
CacheDone(t) ==
    /\ pc[t] = "ret"
    /\ pc' = [pc EXCEPT ![t] = "idle"]
    /\ loc' = [loc EXCEPT ![t] = CacheIdle]
    /\ UNCHANGED <<authVars, issued, logins, inFlight, now, store>>
    /\ UNCHANGED storeVars

\* a second passes
Elapse ==
    /\ now < StartTime + MaxElapsed
    /\ now' = now + 1
    /\ UNCHANGED <<authVars, issued, logins, inFlight, store, pc, loc>>
    /\ UNCHANGED storeVars

\* CacheState::default, lines 187-191, managed by the application
InitCacheFor(threads) ==
    /\ pending = None
    /\ listening = {}
    /\ nonce = 0
    /\ exchangeSent = [v \in Verifiers |-> 0]
    /\ issued = 0
    /\ logins = 0
    /\ inFlight = 0
    /\ session = None
    /\ metadata_path = None
    /\ client_id = None
    /\ vault = EmptyVault
    /\ metaFile = None
    /\ legacyFile = None
    /\ now = StartTime
    /\ store = EmptyCache
    /\ pc = [t \in threads |-> "idle"]
    /\ loc = [t \in threads |-> CacheIdle]

CacheCall(t) ==
    \/ CacheGet(t)
    \/ CacheGetRemove(t)
    \/ CacheSet(t)
    \/ CacheRemove(t)
    \/ CacheInvalidate(t)
    \/ CacheCleanup(t)
    \/ CacheClear(t)
    \/ CacheStats(t)
    \/ CacheDone(t)

\* the commands of the cache invoked from several threads at once
InitCache == InitCacheFor(CacheThreads)

NextCache ==
    \/ \E t \in CacheThreads : CacheCall(t)
    \/ Elapse

SpecCache == InitCache /\ [][NextCache]_vars

\* the cache used by one thread, as in the tests of lines 241-268
InitCacheSeq == InitCacheFor(SeqCacheThreads)

NextCacheSeq ==
    \/ \E t \in SeqCacheThreads : CacheCall(t)
    \/ Elapse

SpecCacheSeq == InitCacheSeq /\ [][NextCacheSeq]_vars

----------------------------------------------------------------------------
(* Properties of the authorization flow, checked under Spec *)

\* C1: a wait_for_oauth_callback run that received a callback whose state
\* differs from the anti-forgery token of the PendingAuthorization it serves
\* has returned the CSRF error, has sent no token-exchange request, and has
\* written neither the session, nor the vault, nor the metadata file.
C1_MismatchRejected ==
    \A w \in Waiters :
        ( /\ pc[w] = "ret"
          /\ IsSome(loc[w].callback)
          /\ Unwrap(loc[w].callback).received_state # loc[w].expected_state )
        => /\ loc[w].result = Some(CsrfError)
           /\ ~loc[w].sentExchange
           /\ ~loc[w].wrote

\* a run has returned the CSRF error for a callback with a foreign state
C1_Witness ==
    \E w \in Waiters :
        /\ pc[w] = "ret"
        /\ IsSome(loc[w].callback)
        /\ Unwrap(loc[w].callback).received_state # loc[w].expected_state
        /\ loc[w].result = Some(CsrfError)

\* C6: the PKCE verifier is single-use: no verifier is sent in more than one
\* authorization-code exchange request, whatever the interleaving of
\* start_google_auth and wait_for_oauth_callback calls.
C6_VerifierSingleUse ==
    \A v \in Verifiers : exchangeSent[v] <= 1

\* C7: whenever wait_for_oauth_callback returns after having found a
\* PendingAuthorization, on success or on any failure, the pending slot is
\* empty.
C7_PendingClearedOnReturn ==
    [][\A w \in Waiters :
         (pc[w] # "ret" /\ pc'[w] = "ret" /\ loc'[w].found) => pending' = None]_vars

\* C8: a callback leads to a code exchange only if a PendingAuthorization was
\* in the slot at the moment the callback was received.
C8_AcceptedOnlyWhilePending ==
    \A w \in Waiters : pc[w] = "exchange" => loc[w].slotAtCallback

\* C9: the slot holds at most one PendingAuthorization, and a
\* start_google_auth that stores leaves in it exactly its own verifier,
\* anti-forgery token and port, and nothing of an authorization that was
\* pending before.
C9_LastWriterWins ==
    [][\A s \in Starters :
         (pc[s] = "store" /\ pc'[s] = "ret")
         => /\ Len(pending') = 1
            /\ pending' = Some(PendingAuth(loc[s].pkce_verifier, loc[s].csrf_token,
                                            loc[s].port))
            /\ IsSome(pending)
                 => /\ Unwrap(pending').pkce_verifier # Unwrap(pending).pkce_verifier
                    /\ Unwrap(pending').csrf_token # Unwrap(pending).csrf_token]_vars

\* a start_google_auth has returned its URL after storing over a pending
\* authorization, and the slot holds what the URL carries
C9_Witness ==
    \E s \in Starters :
        /\ pc[s] = "ret"
        /\ loc[s].overwrote
        /\ Unwrap(loc[s].result).ok
        /\ LET url == Unwrap(loc[s].result).val
           IN  pending = Some(PendingAuth(url.code_challenge_of, url.state,
                                          url.redirect_uri_port))

\* C10: a wait_for_oauth_callback that starts on an empty slot returns in
\* that step with "No pending OAuth flow", has bound no listener and sent no
\* request, and leaves the pending slot, the session, the vault and the
\* metadata file as they were.
C10_NoPendingFailsAtOnce ==
    [][\A w \in Waiters :
         (pc[w] = "idle" /\ pc'[w] # "idle" /\ ~IsSome(pending))
         => /\ pc'[w] = "ret"
            /\ loc'[w].result = Some(NoPendingError)
            /\ ~loc'[w].bound
            /\ ~loc'[w].sentExchange
            /\ ~loc'[w].wrote
            /\ UNCHANGED <<pending, listening, exchangeSent, session, vault, metaFile>>]_vars

\* a run that found the slot empty has returned the state error
C10_Witness ==
    \E w \in Waiters :
        /\ pc[w] = "ret"
        /\ ~loc[w].found
        /\ loc[w].result = Some(NoPendingError)

\* C11: a wait_for_oauth_callback that returns a security or protocol error
\* (a callback without code or state, an anti-forgery mismatch, a token
\* answer that is not 2xx or cannot be parsed, a profile fetch that failed or
\* cannot be parsed) has written nothing: neither the vault, nor the metadata
\* file, nor the in-memory session, and the step that returns the error
\* leaves all three as they are.
C11_ProtocolErrorsPersistNothing ==
    [][\A w \in Waiters :
         (/\ pc[w] # "ret"
          /\ pc'[w] = "ret"
          /\ ~Unwrap(loc'[w].result).ok
          /\ Unwrap(loc'[w].result).err \in
                { "Callback error: No authorization code in callback",
                  "Callback error: No state parameter in callback",
                  CsrfError.err,
                  "Token exchange failed",
                  "Failed to parse token response",
                  "Failed to fetch user info",
                  "Failed to parse user info" })
         => /\ ~loc'[w].wrote
            /\ UNCHANGED <<session, vault, metaFile>>]_vars

\* a call has returned such an error after its exchange request, while a
\* session stored by another call is in memory
C11_Witness ==
    /\ IsSome(session)
    /\ \E w \in Waiters :
         /\ pc[w] = "ret"
         /\ ~Unwrap(loc[w].result).ok
         /\ Unwrap(loc[w].result).err = "Token exchange failed"
         /\ loc[w].sentExchange
         /\ ~loc[w].wrote

----------------------------------------------------------------------------
(* Properties of the token store, checked under SpecStore *)

\* C2: every get_access_token that returns a token returns one whose
\* session has expires_at > now + 300 (now: the clock as the call last read
\* it), whatever expires_in the provider answered and whatever the
\* interleaving, and has refreshed first whenever the session it read had
\* expires_at <= now + 300.
C2_AlwaysFresh ==
    \A g \in Getters :
        (pc[g] = "ret" /\ Unwrap(loc[g].result).ok)
        => /\ loc[g].stale => loc[g].refreshed
           /\ Unwrap(loc[g].returned) > loc[g].readNow + REFRESH_BUFFER

\* C3: get_access_token is single-flight: at most one refresh request of
\* get_access_token calls is in flight at any time.
C3_SingleFlight ==
    inFlight <= 1

\* C4: the metadata file and the vault never hold an access token, after
\* any sequence of initialize, store_tokens, get_access_token and
\* clear_tokens.
C4_AccessTokenOnlyInMemory ==
    /\ IsSome(metaFile) => ~ContainsAccessToken(Unwrap(metaFile))
    /\ \A k \in KeychainKeys : IsSome(vault[k]) => Unwrap(vault[k]) \notin AccessTokens

\* store_tokens has returned Ok, and the session holds an access token next
\* to a metadata file and a vault entry
C4_Witness ==
    /\ \E t \in Storers : pc[t] = "ret" /\ loc[t].result = Some(Ok("unit"))
    /\ IsSome(session)
    /\ Unwrap(session).access_token \in AccessTokens
    /\ IsSome(metaFile)
    /\ \E k \in KeychainKeys : IsSome(vault[k])

\* C5: a refresh token is kept only in the vault, under
\* "<email>:refresh_token": the metadata file never holds one, and once
\* initialize has returned Ok no file of the application directory holds one.
C5_RefreshTokenOnlyInVault ==
    /\ IsSome(metaFile) => ~ContainsRefreshToken(Unwrap(metaFile))
    /\ ( /\ pc[Initializer] \in {"ret", "done"}
         /\ Unwrap(loc[Initializer].result).ok )
       => (IsSome(legacyFile) => ~ContainsRefreshToken(Unwrap(legacyFile)))
    /\ DOMAIN vault = { e \o ":refresh_token" : e \in Emails }

\* initialize has returned Ok after migrating a legacy file that held a
\* refresh token: the token is in the vault and the metadata file exists
C5_Witness ==
    /\ pc[Initializer] \in {"ret", "done"}
    /\ Unwrap(loc[Initializer].result).ok
    /\ legacyFile = None
    /\ IsSome(metaFile)
    /\ vault[KeychainKey(UserA.email)] = Some("rt1")

\* C12: get_access_token called while there is no in-memory session returns
\* the error "Not authenticated" in that very step, sends no refresh request
\* and changes nothing: session, vault, metadata file, requests in flight and
\* tokens issued stay as they are.
C12_NoSessionNotAuthenticated ==
    [][\A g \in Getters :
         (pc[g] = "idle" /\ pc'[g] # "idle" /\ ~IsSome(session))
         => /\ pc'[g] = "ret"
            /\ loc'[g].result = Some(Err("Not authenticated"))
            /\ ~loc'[g].refreshed
            /\ UNCHANGED <<session, vault, metaFile, legacyFile, inFlight, issued>>]_vars

\* a call was refused for lack of a session although the vault holds a
\* refresh token (a startup whose refresh failed, or a logout whose keychain
\* delete has not happened)
C12_Witness ==
    /\ ~IsSome(session)
    /\ \E k \in KeychainKeys : IsSome(vault[k])
    /\ \E g \in Getters :
         /\ pc[g] = "ret"
         /\ loc[g].result = Some(Err("Not authenticated"))

\* C13: when the in-memory session has expires_at > now + 300,
\* get_access_token returns the cached access token in that very step and
\* leaves everything unchanged: no refresh request is sent, and the session,
\* the metadata file and the vault are not written.
C13_FreshTokenFromCache ==
    [][\A g \in Getters :
         (/\ pc[g] = "idle"
          /\ pc'[g] # "idle"
          /\ IsSome(session)
          /\ Unwrap(session).expires_at > now + 300)
         => /\ pc'[g] = "ret"
            /\ loc'[g].result = Some(Ok(Unwrap(session).access_token))
            /\ ~loc'[g].refreshed
            /\ UNCHANGED <<session, vault, metaFile, legacyFile, inFlight, issued>>]_vars

\* a call has returned the cached token of a session that is still in memory
C13_Witness ==
    /\ IsSome(session)
    /\ \E g \in Getters :
         /\ pc[g] = "ret"
         /\ ~loc[g].stale
         /\ ~loc[g].refreshed
         /\ loc[g].result = Some(Ok(Unwrap(session).access_token))
         /\ loc[g].returned = Some(Unwrap(session).expires_at)

\* C14: when the refresh inside a get_access_token call fails, the call
\* returns that error and has changed neither the in-memory session nor the
\* vault. A refresh request whose answer issued no token (network error,
\* non-2xx, malformed answer) ends the call with the error of that answer;
\* every return out of the refresh (metadata write failure included) is an
\* error and leaves session and vault as they are; sending the request has
\* changed nothing either.
C14_FailedRefreshKeepsSession ==
    [][\A g \in Getters :
         /\ (pc[g] = "idle" /\ pc'[g] = "g_response")
            => UNCHANGED <<session, vault, metaFile>>
         /\ (pc[g] = "g_response" /\ pc'[g] # "g_response" /\ issued' = issued)
            => /\ pc'[g] = "ret"
               /\ loc'[g].result \in { Some(Err("Refresh request failed")),
                                        Some(Err("Token refresh failed")),
                                        Some(Err("Failed to parse refresh response")) }
         /\ (pc[g] = "g_response" /\ pc'[g] = "ret")
            => /\ ~Unwrap(loc'[g].result).ok
               /\ UNCHANGED <<session, vault>>]_vars

\* a call has returned the error of a refused refresh while the session it
\* tried to refresh is still in memory and its refresh token still in the
\* vault
C14_Witness ==
    /\ IsSome(session)
    /\ vault[KeychainKey(Unwrap(session).user_info.email)] =
           Some(Unwrap(session).refresh_token)
    /\ \E g \in Getters :
         /\ pc[g] = "ret"
         /\ loc[g].refreshed
         /\ loc[g].result = Some(Err("Token refresh failed"))

\* C15: a successful refresh never changes the refresh token. When
\* get_access_token installs the refreshed session, its refresh_token is the
\* one the request was sent with, and neither the answer nor the commit
\* writes the vault; when initialize installs a refreshed session, its
\* refresh_token is the vault entry of the account, and the vault is left as
\* it is.
C15_RefreshKeepsRefreshToken ==
    [][/\ \A g \in Getters :
            /\ (pc[g] = "g_response" /\ pc'[g] = "g_commit") => vault' = vault
            /\ (pc[g] = "g_commit" /\ pc'[g] = "ret")
               => /\ IsSome(session')
                  /\ Unwrap(session').refresh_token =
                        Unwrap(loc[g].snapshot).refresh_token
                  /\ vault' = vault
       /\ (pc[Initializer] = "load" /\ session' # session)
            => /\ IsSome(session')
               /\ vault' = vault
               /\ vault[KeychainKey(Unwrap(session').user_info.email)] =
                     Some(Unwrap(session').refresh_token)]_vars

\* a get_access_token has returned the token of its own refresh, and the
\* session in memory carries the refresh token that is in the vault
C15_Witness ==
    /\ IsSome(session)
    /\ Unwrap(session).refresh_token \in RefreshTokens
    /\ vault[KeychainKey(Unwrap(session).user_info.email)] =
           Some(Unwrap(session).refresh_token)
    /\ \E g \in Getters :
         /\ pc[g] = "ret"
         /\ loc[g].refreshed
         /\ loc[g].result = Some(Ok(Unwrap(session).access_token))

\* C17: clear_tokens is idempotent. A clear_tokens that returns success
\* leaves the in-memory session empty, and a clear_tokens invoked while the
\* session is empty (the second of two consecutive invocations, or one with
\* no active session) has no email to delete from the keychain, skips the
\* keychain, cannot fail in any later step, and returns success with the
\* session empty.
C17_ClearIdempotent ==
    [][\A c \in Clearers :
         /\ (pc[c] = "idle" /\ pc'[c] # "idle" /\ ~IsSome(session))
            => ~IsSome(loc'[c].email)
         /\ (pc[c] = "c_keychain" /\ pc'[c] # "c_keychain" /\ ~IsSome(loc[c].email))
            => (pc'[c] = "c_file" /\ vault' = vault)
         /\ (pc[c] = "c_file" /\ pc'[c] # "c_file") => pc'[c] = "c_mem"
         /\ (pc[c] = "c_mem" /\ pc'[c] # "c_mem")
            => /\ pc'[c] = "ret"
               /\ loc'[c].result = Some(Ok("unit"))
               /\ session' = None]_vars

\* a clear_tokens that found no session has returned success
C17_Witness ==
    /\ session = None
    /\ \E c \in Clearers :
         /\ pc[c] = "ret"
         /\ loc[c].email = None
         /\ loc[c].result = Some(Ok("unit"))

----------------------------------------------------------------------------
(* Properties of the token store used by one caller, checked under SpecSeq *)

\* C18: when clear_tokens returns success and had found an active session for
\* email E, the vault has no entry "E:refresh_token", the metadata file does
\* not exist and the in-memory session is empty.
C18_ClearRemovesEverything ==
    [][\A c \in Clearers :
         (pc[c] = "c_mem" /\ pc'[c] = "ret" /\ IsSome(loc[c].email))
         => /\ loc'[c].result = Some(Ok("unit"))
            /\ vault'[KeychainKey(Unwrap(loc[c].email))] = None
            /\ metaFile' = None
            /\ session' = None]_vars

\* C19: when store_tokens(S) returns success, the vault entry for S's email
\* holds S's refresh token, the metadata file holds S's email, name, picture
\* and expires_at, and the in-memory session has S's access token, refresh
\* token, expires_at and user info, for every S a code exchange can produce
\* (an S without refresh token has no entry in the vault).
C19_StoreTokensPostcondition ==
    [][\A t \in Storers :
         (pc[t] = "st_session" /\ pc'[t] = "ret")
         => LET S == Unwrap(loc[t].stored) IN
            /\ loc'[t].result = Some(Ok("unit"))
            /\ vault'[KeychainKey(S.user_info.email)] = S.refresh_token
            /\ IsSome(metaFile')
            /\ Unwrap(metaFile').email = S.user_info.email
            /\ Unwrap(metaFile').name = S.user_info.name
            /\ Unwrap(metaFile').picture = S.user_info.picture
            /\ Unwrap(metaFile').expires_at = S.expires_at
            /\ IsSome(session')
            /\ Unwrap(session').access_token = S.access_token
            /\ IsSome(S.refresh_token)
                 => Unwrap(session').refresh_token = Unwrap(S.refresh_token)
            /\ Unwrap(session').expires_at = S.expires_at
            /\ Unwrap(session').user_info = S.user_info]_vars

\* C20: a status query that comes right after store_tokens(S) has returned
\* success, at a time when S.expires_at > now + 300, returns is_authenticated
\* = true with expires_at = S.expires_at and S's user; and no status query
\* changes any state.
C20_StoreThenStatus ==
    [][\A a \in StatusCallers :
         (pc[a] = "idle" /\ pc'[a] # "idle")
         => /\ pc'[a] = "ret"
            /\ UNCHANGED <<authVars, storeVars, issued, logins, inFlight, now, store>>
            /\ \A t \in Storers :
                 (/\ pc[t] = "ret"
                  /\ loc[t].result = Some(Ok("unit"))
                  /\ Unwrap(loc[t].stored).expires_at > now + 300)
                 => LET S == Unwrap(loc[t].stored)
                        status == Unwrap(loc'[a].result)
                    IN  /\ status.ok
                        /\ status.val.is_authenticated
                        /\ status.val.expires_at = Some(S.expires_at)
                        /\ status.val.user = Some(S.user_info)]_vars

\* store_tokens has returned success and the status query after it has
\* answered: authenticated, with the expiry of the stored tokens
C20_Witness ==
    \E a \in StatusCallers, t \in Storers :
        /\ pc[t] = "ret"
        /\ loc[t].result = Some(Ok("unit"))
        /\ pc[a] = "ret"
        /\ Unwrap(loc[a].result).val.is_authenticated
        /\ Unwrap(loc[a].result).val.expires_at = Some(Unwrap(loc[t].stored).expires_at)
        /\ Unwrap(loc[t].stored).expires_at = now + REFRESH_BUFFER + 1

----------------------------------------------------------------------------
(* Properties of signing in, checked under SpecLogin *)

\* C16: the session's expires_at is the clock value at the most recent
\* successful code exchange or refresh plus the expires_in of that answer
\* (where the answer has one), and the same value is in the metadata file
\* and, for wait_for_oauth_callback, in the AuthStatus it returns.
C16_ExpiresAtIsClockPlusExpiresIn ==
    [][/\ \A w \in SeqWaiters :
            (pc[w] = "st_session" /\ pc'[w] = "ret")
            => /\ IsSome(loc[w].expires_in)
                    => Unwrap(session').expires_at =
                          loc[w].exchangedAt + Unwrap(loc[w].expires_in)
               /\ Unwrap(metaFile').expires_at = Unwrap(session').expires_at
               /\ Unwrap(loc'[w].result).val.expires_at =
                     Some(Unwrap(session').expires_at)
       /\ \A g \in SeqGetters :
            (pc[g] = "g_commit" /\ pc'[g] = "ret")
            => /\ IsSome(loc[g].expires_in)
                    => Unwrap(session').expires_at =
                          loc[g].readNow + Unwrap(loc[g].expires_in)
               /\ Unwrap(metaFile').expires_at = Unwrap(session').expires_at]_vars

----------------------------------------------------------------------------
(* Properties of startup, checked under SpecStartup *)

\* C21: when initialize has migrated a legacy file holding refresh token R
\* for email E and then completes its load without a failure of the disk or
\* the keychain, the vault holds R under "E:refresh_token", the metadata
\* file exists and holds no secret, and the legacy file is gone, whatever
\* the expiry in the legacy file and whatever the outcome of the refresh.
C21_MigrationOutcome ==
    [][(/\ pc[Initializer] = "load"
        /\ pc'[Initializer] = "ret"
        /\ IsSome(loc[Initializer].migrated)
        /\ IsSome(Unwrap(loc[Initializer].migrated).refresh_token)
        /\ loc'[Initializer].fault = "")
       => LET old_tokens == Unwrap(loc[Initializer].migrated) IN
          /\ vault'[KeychainKey(old_tokens.user_info.email)] = old_tokens.refresh_token
          /\ IsSome(metaFile')
          /\ ~ContainsRefreshToken(Unwrap(metaFile'))
          /\ ~ContainsAccessToken(Unwrap(metaFile'))
          /\ legacyFile' = None]_vars

\* C22: a migration that fails, at whatever step, leaves the legacy file
\* with its content, so that the next initialize finds it and tries again;
\* and a migration that succeeds, at once or after failed attempts in earlier
\* runs, ends in the state a migration at once would have reached from the
\* keychain of the first attempt: the refresh token of the legacy file under
\* its email, the metadata of the legacy file in the metadata file, no
\* legacy file.
C22_MigrationRetried ==
    [][(pc[Initializer] = "migrate" /\ pc'[Initializer] # "migrate")
       => /\ pc'[Initializer] = "ret"
             => /\ legacyFile' = legacyFile
                /\ ~Unwrap(loc'[Initializer].result).ok
          /\ pc'[Initializer] = "load"
             => LET old_tokens == ParseStoredTokens(Unwrap(legacyFile)).val
                    first == Unwrap(loc'[Initializer].before)
                IN  /\ vault' = IF IsSome(old_tokens.refresh_token)
                                 THEN [first EXCEPT
                                         ![KeychainKey(old_tokens.user_info.email)] =
                                             old_tokens.refresh_token]
                                 ELSE first
                    /\ metaFile' = Some([email |-> old_tokens.user_info.email,
                                         name |-> old_tokens.user_info.name,
                                         picture |-> old_tokens.user_info.picture,
                                         expires_at |-> old_tokens.expires_at,
                                         scopes_granted |-> << >>])
                    /\ legacyFile' = None]_vars

\* a migration has succeeded in the second run, after the attempt of the
\* first run had failed; the keychain held another token for the email
\* before the first attempt
C22_Witness ==
    /\ pc[Initializer] = "load"
    /\ loc[Initializer].runs = 1
    /\ IsSome(loc[Initializer].migrated)
    /\ IsSome(loc[Initializer].before)
    /\ Unwrap(loc[Initializer].before)[KeychainKey(UserA.email)] = Some("rt2")
    /\ vault[KeychainKey(UserA.email)] = Some("rt1")
    /\ legacyFile = None

C24_FailedRefreshOnLoadClears ==
    [][(/\ pc[Initializer] = "load"
        /\ pc'[Initializer] = "ret"
        /\ ParseSessionMetadata(Unwrap(metaFile)).ok
        /\ Unwrap(metaFile).expires_at <= now + REFRESH_BUFFER
        /\ IsSome(vault[KeychainKey(Unwrap(metaFile).email)])
        /\ issued' = issued
        /\ loc'[Initializer].fault = "")
       => /\ vault'[KeychainKey(Unwrap(metaFile).email)] = None
          /\ metaFile' = None
          /\ session' = None
          /\ Unwrap(loc'[Initializer].result).ok]_vars

\* C25: when the load finds a metadata file and the keychain has no refresh
\* token for its email, the metadata file is deleted, no token is obtained
\* from the provider, no session is in memory and initialize returns Ok.
C25_OrphanedMetadataRemoved ==
    [][(/\ pc[Initializer] = "load"
        /\ pc'[Initializer] = "ret"
        /\ ParseSessionMetadata(Unwrap(metaFile)).ok
        /\ vault[KeychainKey(Unwrap(metaFile).email)] = None
        /\ loc'[Initializer].fault \notin {"read", "keychain"})
       => /\ metaFile' = None
          /\ issued' = issued
          /\ session' = None
          /\ vault' = vault
          /\ Unwrap(loc'[Initializer].result).ok]_vars

\* C26: when the load reads a metadata file whose content is malformed, the
\* file is deleted, no session is in memory and initialize returns Ok, as if
\* there had been no file.
C26_MalformedMetadataIsAbsent ==
    [][(/\ pc[Initializer] = "load"
        /\ pc'[Initializer] = "ret"
        /\ ~ParseSessionMetadata(Unwrap(metaFile)).ok
        /\ loc'[Initializer].fault # "read")
       => /\ metaFile' = None
          /\ session' = None
          /\ Unwrap(loc'[Initializer].result).ok]_vars

----------------------------------------------------------------------------
(* Properties of a sign-in whose provider may not answer, checked under    *)
(* SpecLive                                                                *)

\* C27: once the loopback callback has been received,
\* wait_for_oauth_callback eventually returns, also when the provider never
\* answers a request: every request of the flow ends, with an error if
\* need be.
C27_WaitReturnsAfterCallback ==
    \A w \in SeqWaiters :
        (pc[w] \in {"verify", "exchange", "profile"}) ~> (pc[w] = "ret")

----------------------------------------------------------------------------
(* Properties of the callback server, checked under Spec *)

C29_ResponseAlwaysWritten ==
    \A w \in Waiters :
        IsSome(loc[w].request) => loc[w].responded

----------------------------------------------------------------------------
(* Properties of extract_param, checked under SpecParse *)

\* C30: for every request buffer, extract_param returns the decoded value of
\* the first pair of the query string whose key is the parameter, where the
\* query string is the text between the first `?` and the first " HTTP" (or
\* the end), its pairs are separated by `&`, and the value of a pair is all
\* that follows its first `=`, further `=` included; "GET /?code=ABC&state=XYZ
\* HTTP/1.1" gives the code ABC and the state XYZ.
C30_ExtractParamRule ==
    \A b \in CallbackTasks :
        LET parts == loc[b].parts
            Matching(param) ==
                { i \in 1..Len(parts.pairs) :
                    parts.pairs[i].key = param /\ parts.pairs[i].hasValue }
            Expected(param) ==
                IF ~parts.query \/ Matching(param) = {} THEN None
                ELSE LET first == CHOOSE i \in Matching(param) :
                                     \A j \in Matching(param) : i <= j
                     IN  percent_decode(parts.pairs[first].value)
        IN  /\ pc[b] \in {"state", "ret"} => loc[b].code = Expected(CodeParam)
            /\ (pc[b] = "ret" /\ IsSome(loc[b].code))
                  => loc[b].received_state = Expected(StateParam)
            /\ (/\ pc[b] = "ret"
                /\ loc[b].request =
                      <<"G", "E", "T", " ", "/", "?", "c", "o", "d", "e", "=", "A", "B", "C", "&", "s", "t", "a", "t", "e", "=", "X", "Y", "Z", " ", "H", "T", "T", "P", "/", "1", ".", "1">>)
                  => /\ loc[b].code = Some(<<"A", "B", "C">>)
                     /\ loc[b].received_state = Some(<<"X", "Y", "Z">>)

\* C39: a request whose request line has no `?` never aborts the blocking
\* task and yields no parameter, whatever follows the request line: once
\* the code has been looked for, the callback has ended in the error of the
\* missing authorization code.
C39_NoQueryMeansMissingCode ==
    \A b \in CallbackTasks :
        (~loc[b].parts.query /\ pc[b] # "code")
        => /\ pc[b] = "ret"
           /\ loc[b].code = None
           /\ loc[b].result = Some(Err("No authorization code in callback"))

----------------------------------------------------------------------------
(* Properties of start_google_auth, checked under Spec *)

C36_ReplacedPendingRejectsOldToken ==
    [][\A w \in Waiters :
         (/\ pc[w] = "verify"
          /\ pc'[w] # "verify"
          /\ loc[w].replaced
          /\ Unwrap(loc[w].callback).received_state = loc[w].expected_state
          /\ IsSome(pending)
          /\ Unwrap(pending).csrf_token # loc[w].expected_state)
         => /\ pc'[w] = "ret"
            /\ Unwrap(loc'[w].result) = CsrfError
            /\ pending' = pending]_vars

----------------------------------------------------------------------------
(* Further properties of signing in, checked under SpecLogin *)

\* C32: when the answer of the token endpoint has no expires_in, the session
\* gets expires_at = clock + 3600, after the exchange of an authorization
\* code (the clock being read between the answer and the store) as after a
\* refresh.
C32_AbsentExpiresInDefaults ==
    [][/\ \A w \in SeqWaiters :
            (pc[w] = "st_session" /\ pc'[w] = "ret" /\ ~IsSome(loc[w].expires_in))
            => \E t \in loc[w].exchangedAt .. now :
                  Unwrap(session').expires_at = t + DEFAULT_EXPIRES_IN
       /\ \A g \in SeqGetters :
            (pc[g] = "g_commit" /\ pc'[g] = "ret" /\ ~IsSome(loc[g].expires_in))
            => Unwrap(session').expires_at = loc[g].readNow + DEFAULT_EXPIRES_IN]_vars

\* C37: when wait_for_oauth_callback returns an AuthStatus with
\* is_authenticated = true, get_auth_status called at once, at the same
\* clock and on the session as that call left it, reports is_authenticated
\* = true too, with the same expires_at.
C37_StatusAgreesWithWait ==
    [][\A w \in SeqWaiters :
         (/\ pc[w] = "st_session"
          /\ pc'[w] = "ret"
          /\ Unwrap(loc'[w].result).ok
          /\ Unwrap(loc'[w].result).val.is_authenticated)
         => LET status == get_auth_status(session', now').val IN
            /\ status.is_authenticated
            /\ status.expires_at = Unwrap(loc'[w].result).val.expires_at]_vars

----------------------------------------------------------------------------
(* Further properties of the token store used by one caller, checked under *)
(* SpecSeq                                                                 *)

\* C38: once clear_tokens has returned success, the keychain has no refresh
\* token for the account named in the metadata file that was there when the
\* call began, whether or not a session was in memory then.
C38_ClearRemovesKeychainEntry ==
    \A c \in Clearers :
        (/\ pc[c] = "ret"
         /\ Unwrap(loc[c].result).ok
         /\ IsSome(loc[c].fileEmail))
        => vault[KeychainKey(Unwrap(loc[c].fileEmail))] = None

----------------------------------------------------------------------------
(* Properties of the cache used by one thread, checked under SpecCacheSeq *)

\* C33: set(k, v, ttl) leaves under k the entry (v, now, ttl); while the age
\* of an entry does not exceed its ttl, only a set, remove, invalidate or
\* clear changes it, and get(k) returns its value and leaves the store as it
\* is; once the age exceeds the ttl, get(k) returns None and no entry is
\* left under k.
C33_CacheGetAfterSet ==
    [][\A t \in SeqCacheThreads :
         /\ (pc[t] = "idle" /\ pc'[t] = "ret" /\ loc'[t].op = "set")
              => store' = [store EXCEPT ![loc'[t].key] =
                             Some([value |-> loc'[t].value,
                                   created_at |-> now,
                                   ttl |-> loc'[t].ttl])]
         /\ \A k \in CacheKeys :
              (/\ IsSome(store[k])
               /\ now - Unwrap(store[k]).created_at <= Unwrap(store[k]).ttl
               /\ store'[k] # store[k])
              => /\ pc[t] = "idle"
                 /\ pc'[t] = "ret"
                 /\ loc'[t].op \in {"set", "remove", "invalidate", "clear"}
         /\ (pc[t] = "idle" /\ pc'[t] # "idle" /\ loc'[t].op = "get")
              => LET entry == store[loc'[t].key] IN
                 /\ store' = store
                 /\ (IsSome(entry) /\ now - Unwrap(entry).created_at <= Unwrap(entry).ttl)
                      => /\ pc'[t] = "ret"
                         /\ loc'[t].result = Some(Some(Unwrap(entry).value))
                 /\ (IsSome(entry) /\ now - Unwrap(entry).created_at > Unwrap(entry).ttl)
                      => pc'[t] = "expired"
                 /\ ~IsSome(entry)
                      => pc'[t] = "ret" /\ loc'[t].result = Some(None)
         /\ (pc[t] = "expired" /\ pc'[t] = "ret")
              => /\ loc'[t].result = Some(None)
                 /\ store'[loc[t].key] = None]_vars

\* get has returned the value of an entry whose age is its ttl, one second
C33_Witness ==
    \E t \in SeqCacheThreads :
        /\ pc[t] = "ret"
        /\ loc[t].op = "get"
        /\ IsSome(store[loc[t].key])
        /\ Unwrap(store[loc[t].key]).ttl = 1
        /\ now - Unwrap(store[loc[t].key]).created_at = 1
        /\ loc[t].result = Some(Some(Unwrap(store[loc[t].key]).value))

----------------------------------------------------------------------------
(* Properties of the cache used by several threads, checked under SpecCache *)

\* C40: get never removes an entry that is not expired: when the removal
\* that follows the lookup of an expired entry finds under the key an entry
\* whose age does not exceed its ttl, set by another thread in between, it
\* leaves that entry in the store.
C40_GetKeepsFreshEntry ==
    [][\A t \in CacheThreads :
         (/\ pc[t] = "expired"
          /\ pc'[t] = "ret"
          /\ IsSome(store[loc[t].key])
          /\ now - Unwrap(store[loc[t].key]).created_at
                <= Unwrap(store[loc[t].key]).ttl)
         => store'[loc[t].key] = store[loc[t].key]]_vars

----------------------------------------------------------------------------
(* Properties of the token store under concurrent calls, checked under     *)
(* SpecStore and SpecSignedIn                                              *)

\* C34: logout is final for a refresh in flight: when clear_tokens has
\* emptied the session after a get_access_token call read it, the steps that
\* call takes afterwards (the answer of the refresh, the commit) neither put
\* a session back nor create the metadata file again.
C34_LogoutFinalForRefreshInFlight ==
    [][\A g \in Getters :
         (/\ pc[g] \in {"g_response", "g_commit"}
          /\ pc'[g] # pc[g]
          /\ session = None)
         => /\ session' = None
            /\ metaFile = None => metaFile' = None]_vars

\* C35: whenever no call of the token store is in progress and there are
\* both a session in memory and a metadata file, the file has the email and
\* the expires_at of the session.
C35_MetadataMatchesSession ==
    (/\ \A p \in DOMAIN pc : pc[p] \in {"idle", "ret", "done"}
     /\ IsSome(session)
     /\ IsSome(metaFile))
    => /\ ParseSessionMetadata(Unwrap(metaFile)).ok
       /\ Unwrap(metaFile).email = Unwrap(session).user_info.email
       /\ Unwrap(metaFile).expires_at = Unwrap(session).expires_at

====
